---- MODULE Spec2Model ----
(***************************************************************************)
(* Model of the bingo board library of spotify_bingo_creator               *)
(* ($lib/utils/bingo.ts): board generation (shuffleArray,                  *)
(* generateSpotifyBingo, generateMultipleBoards), the marking operations   *)
(* (toggleCell, resetBoard) and the win evaluation (isRowComplete,         *)
(* isColumnComplete, isDiagonalComplete, hasWon, getCompletedLines,        *)
(* isBlackout).                                                            *)
(*                                                                         *)
(* Arrays are TLA+ sequences: the JavaScript index i is the sequence       *)
(* index i + 1.  A song object is a record; its field ref is the identity  *)
(* of the object (the position it was created at in playlist.songs) and    *)
(* its field id is the catalog id, which two entries of a playlist may     *)
(* share.  Board ids (generateBoardId) are not modelled.                   *)
(*                                                                         *)
(* The module also models the catalog client ($lib/server/spotify.ts),     *)
(* the two renderers ($lib/server/canvas-pdf-export.ts and                 *)
(* $lib/server/pdf-export.ts) and the export queries                       *)
(* (routes/pdf.remote.ts); each has a section and a specification of its   *)
(* own below.                                                              *)
(***************************************************************************)
EXTENDS Integers, Sequences, FiniteSets, TLC

VARIABLES songs, boards, result
vars == <<songs, boards, result>>

(***************************************************************************)
(* Bounds of the model.                                                    *)
(***************************************************************************)
\* playlist.songs has RequiredCount - 1 .. RequiredCount + Slack entries
Slack == 0
\* Math.random() returns one of 0/RandDen .. (RandDen-1)/RandDen
RandDen == 2
\* largest count passed to generateMultipleBoards
MaxCount == 2
\* largest array passed to shuffleArray with every sequence of draws
MaxShuffle == 5
\* largest number of cells whose mark differs from the generated one
MaxToggled == 1
\* the markings evaluated: at most MaxLines full lines, or the full grid,
\* with at most MaxFlip cells flipped
MaxLines == 2
MaxFlip == 1

BoardSizes == {3, 4, 5}

(***************************************************************************)
(* Songs.                                                                  *)
(***************************************************************************)
Song(k, tid) == [ref |-> k, id |-> "t" \o ToString(tid)]

\* the literal of the free cell; it is no entry of playlist.songs
FreeSong == [ref |-> 0, id |-> "free"]

\* a playlist of n entries; with dup, the last entry repeats the first track
Playlist(n, dup) ==
    [k \in 1..n |-> Song(k, IF dup /\ k = n /\ n > 1 THEN 1 ELSE k)]

(***************************************************************************)
(* Math.random: the k-th call (k = 0, 1, ...) made by one operation        *)
(* returns ((rnd.start + k * rnd.step) % RandDen) / RandDen.  A stream     *)
(* [draws |-> d] lists the values themselves: the k-th call returns the    *)
(* fraction d[k + 1][1] / d[k + 1][2].                                     *)
(***************************************************************************)
RandomStreams == [start : 0..(RandDen - 1), step : 0..(RandDen - 1)]

\* Math.floor(Math.random() * (m - 1)): the index i is never drawn
RandomIndexExclusive(rnd, k, m) ==
    IF "draws" \in DOMAIN rnd
    THEN (rnd.draws[k + 1][1] * (m - 1)) \div rnd.draws[k + 1][2]
    ELSE (((rnd.start + k * rnd.step) % RandDen) * (m - 1)) \div RandDen

\* Math.floor(Math.random() * m) at the k-th call
RandomIndex(rnd, k, m) ==
    IF "draws" \in DOMAIN rnd
    THEN (rnd.draws[k + 1][1] * m) \div rnd.draws[k + 1][2]
    ELSE (((rnd.start + k * rnd.step) % RandDen) * m) \div RandDen

(***************************************************************************)
(* shuffleArray                                                            *)
(***************************************************************************)
\* a swap that loses the element at i
SwapOverwrite(arr, i, j) == [arr EXCEPT ![i + 1] = arr[j + 1]]

Swap(arr, i, j) == [arr EXCEPT ![i + 1] = arr[j + 1], ![j + 1] = arr[i + 1]]

\* the turns i = hi, hi - 1, ..., lo of the loop, made on shuffled; the
\* loop has no turn on an array of fewer than two elements, and the turn i
\* is preceded by k + (shuffled.length - 1 - i) calls of Math.random.  The
\* turns are made half by half, the upper half first.
RECURSIVE ShuffleLoop(_, _, _, _, _)
ShuffleLoop(shuffled, hi, lo, rnd, k) ==
    IF hi < lo \/ Len(shuffled) < 2
    THEN shuffled
    ELSE IF hi = lo
    THEN Swap(shuffled, hi,
              RandomIndex(rnd, k + (Len(shuffled) - 1 - hi), hi + 1))
    ELSE ShuffleLoop(ShuffleLoop(shuffled, hi, (hi + lo) \div 2 + 1, rnd, k),
                     (hi + lo) \div 2, lo, rnd, k)

\* first is the number of Math.random calls made before this one
shuffleArray(array, rnd, first) ==
    ShuffleLoop(array, Len(array) - 1, 1, rnd, first)

\* the number of Math.random calls one shuffleArray(array) makes
ShuffleDraws(array) == IF Len(array) > 0 THEN Len(array) - 1 ELSE 0

(***************************************************************************)
(* generateSpotifyBingo                                                    *)
(***************************************************************************)
cellCount(size, includeFreeSpace) ==
    size * size - (IF includeFreeSpace /\ size = 5 THEN 1 ELSE 0)

\* an id that names the column first
CellIdColumnFirst(row, col) == ToString(col) \o "-" \o ToString(row)

CellId(row, col) == ToString(row) \o "-" \o ToString(col)

\* the centre test without the includeFreeSpace flag
IsFreeCellAnyFlag(size, includeFreeSpace, row, col) ==
    size = 5 /\ row = 2 /\ col = 2

IsFreeCell(size, includeFreeSpace, row, col) ==
    size = 5 /\ includeFreeSpace /\ row = 2 /\ col = 2

\* a cell before the loops assign it
NoCell == [id |-> "", song |-> FreeSong, marked |-> FALSE]

\* cells before the loops assign them
EmptyCells(size) == [row \in 0..(size - 1) |-> [col \in 0..(size - 1) |-> NoCell]]

\* the body of the inner loop at (row, col): before holds cells and
\* songIndex as the turn finds them
PutCell(before, row, col, selectedSongs, size, includeFreeSpace) ==
    IF IsFreeCell(size, includeFreeSpace, row, col)
    THEN [cells |-> [before.cells EXCEPT ![row][col] =
                        [id |-> CellId(row, col), song |-> FreeSong,
                         marked |-> TRUE]],
          songIndex |-> before.songIndex]
    ELSE [cells |-> [before.cells EXCEPT ![row][col] =
                        [id |-> CellId(row, col),
                         song |-> selectedSongs[before.songIndex + 1],
                         marked |-> FALSE]],
          songIndex |-> before.songIndex + 1]

\* the inner loop: cells and songIndex after the turns 0, ..., col of the
\* row, which is begun with cells and songIndex as in before
RECURSIVE FillRow(_, _, _, _, _, _)
FillRow(before, row, col, selectedSongs, size, includeFreeSpace) ==
    IF col < 0
    THEN before
    ELSE PutCell(FillRow(before, row, col - 1, selectedSongs, size,
                         includeFreeSpace),
                 row, col, selectedSongs, size, includeFreeSpace)

\* the outer loop: cells and songIndex after the turns 0, ..., row; a row
\* is begun when the rows before it are filled
RECURSIVE FillCells(_, _, _, _)
FillCells(row, selectedSongs, size, includeFreeSpace) ==
    IF row < 0
    THEN [cells |-> EmptyCells(size), songIndex |-> 0]
    ELSE CHOOSE after \in
             {FillRow(before, row, size - 1, selectedSongs, size,
                      includeFreeSpace) :
                  before \in {FillCells(row - 1, selectedSongs, size,
                                        includeFreeSpace)}} : TRUE

InsufficientSongs(size, includeFreeSpace, pool) ==
    [text |-> "Need at least", need |-> cellCount(size, includeFreeSpace),
     size |-> size, got |-> Len(pool)]

\* the guard with <= for <
HasTooFewSongsOrJustEnough(pool, size, includeFreeSpace) ==
    Len(pool) <= cellCount(size, includeFreeSpace)

HasTooFewSongs(pool, size, includeFreeSpace) ==
    Len(pool) < cellCount(size, includeFreeSpace)

\* the outcome of one call: a thrown error or a returned board
generateSpotifyBingo(pool, size, includeFreeSpace, rnd, first) ==
    IF HasTooFewSongs(pool, size, includeFreeSpace)
    THEN [threw |-> TRUE,
          error |-> InsufficientSongs(size, includeFreeSpace, pool)]
    ELSE LET shuffled      == shuffleArray(pool, rnd, first)
             selectedSongs == SubSeq(shuffled, 1,
                                     cellCount(size, includeFreeSpace))
         IN  [threw |-> FALSE,
              board |-> [size  |-> size,
                         cells |-> FillCells(size - 1, selectedSongs, size,
                                             includeFreeSpace).cells]]

(***************************************************************************)
(* generateMultipleBoards                                                  *)
(***************************************************************************)
\* the loop of generateMultipleBoards, resumed at i; a throw of
\* generateSpotifyBingo leaves the loop and the function
RECURSIVE MultipleLoop(_, _, _, _, _, _, _)
MultipleLoop(acc, i, pool, count, size, includeFreeSpace, rnd) ==
    IF i < count
    THEN LET r == generateSpotifyBingo(pool, size, includeFreeSpace, rnd,
                                       i * ShuffleDraws(pool))
         IN  IF r.threw
             THEN [threw |-> TRUE, error |-> r.error]
             ELSE MultipleLoop(Append(acc, r.board), i + 1, pool, count, size,
                               includeFreeSpace, rnd)
    ELSE [threw |-> FALSE, boards |-> acc]

\* the loop started at i = 1
generateMultipleBoardsFromOne(pool, count, size, includeFreeSpace, rnd) ==
    MultipleLoop(<<>>, 1, pool, count, size, includeFreeSpace, rnd)

generateMultipleBoards(pool, count, size, includeFreeSpace, rnd) ==
    MultipleLoop(<<>>, 0, pool, count, size, includeFreeSpace, rnd)

(***************************************************************************)
(* toggleCell, resetBoard                                                  *)
(***************************************************************************)
InvalidPosition(row, col) ==
    [text |-> "Invalid cell position", row |-> row, col |-> col]

\* a toggle that marks instead of flipping
toggleCellMarkOnly(board, row, col) ==
    IF row < 0 \/ row >= board.size \/ col < 0 \/ col >= board.size
    THEN [threw |-> TRUE, error |-> InvalidPosition(row, col)]
    ELSE [threw |-> FALSE,
          board |-> [board EXCEPT !.cells[row][col].marked = TRUE]]

\* a toggle that ignores a position outside the grid
toggleCellIgnoreOutside(board, row, col) ==
    IF row < 0 \/ row >= board.size \/ col < 0 \/ col >= board.size
    THEN [threw |-> FALSE, board |-> board]
    ELSE [threw |-> FALSE,
          board |-> [board EXCEPT !.cells[row][col].marked =
                                      ~board.cells[row][col].marked]]

toggleCell(board, row, col) ==
    IF row < 0 \/ row >= board.size \/ col < 0 \/ col >= board.size
    THEN [threw |-> TRUE, error |-> InvalidPosition(row, col)]
    ELSE [threw |-> FALSE,
          board |-> [board EXCEPT !.cells[row][col].marked =
                                      ~board.cells[row][col].marked]]

\* the loops of resetBoard, resumed at (row, col)
RECURSIVE ResetLoop(_, _, _)
ResetLoop(board, row, col) ==
    IF row >= board.size THEN board
    ELSE IF col >= board.size THEN ResetLoop(board, row + 1, 0)
    ELSE IF board.size = 5 /\ row = 2 /\ col = 2
    THEN ResetLoop([board EXCEPT !.cells[row][col].marked = TRUE],
                   row, col + 1)
    ELSE ResetLoop([board EXCEPT !.cells[row][col].marked = FALSE],
                   row, col + 1)

resetBoard(board) == ResetLoop(board, 0, 0)

(***************************************************************************)
(* isRowComplete, isColumnComplete, isDiagonalComplete, isBlackout         *)
(***************************************************************************)
\* Array.prototype.every over the array arr (a function on 0..length-1)
Every(arr, P(_, _)) == \A i \in DOMAIN arr : P(arr[i], i)

isRowComplete(board, row) ==
    LET marked(cell, j) == cell.marked
    IN  Every(board.cells[row], marked)

isColumnComplete(board, col) ==
    LET marked(row, i) == row[col].marked
    IN  Every(board.cells, marked)

\* both diagonals read as the main one
isDiagonalCompleteMainOnly(board, diagonal) ==
    IF diagonal = 0 \/ diagonal = 1
    THEN LET marked(row, i) == row[i].marked
         IN  Every(board.cells, marked)
    ELSE FALSE

isDiagonalComplete(board, diagonal) ==
    IF diagonal = 0
    THEN LET marked(row, i) == row[i].marked
         IN  Every(board.cells, marked)
    ELSE IF diagonal = 1
    THEN LET marked(row, i) == row[board.size - 1 - i].marked
         IN  Every(board.cells, marked)
    ELSE FALSE

\* a blackout test that skips the free cell
isBlackoutButFree(board) ==
    LET marked(cell, j) == cell.marked \/ cell.song = FreeSong
        rowMarked(row, i) == Every(row, marked)
    IN  Every(board.cells, rowMarked)

isBlackout(board) ==
    LET marked(cell, j) == cell.marked
        rowMarked(row, i) == Every(row, marked)
    IN  Every(board.cells, rowMarked)

(***************************************************************************)
(* hasWon                                                                  *)
(***************************************************************************)
\* for (i ...) if (isRowComplete(board, i)) return true, resumed at i
RECURSIVE AnyRowComplete(_, _)
AnyRowComplete(board, i) ==
    IF i < board.size
    THEN IF isRowComplete(board, i) THEN TRUE
         ELSE AnyRowComplete(board, i + 1)
    ELSE FALSE

RECURSIVE AnyColumnComplete(_, _)
AnyColumnComplete(board, i) ==
    IF i < board.size
    THEN IF isColumnComplete(board, i) THEN TRUE
         ELSE AnyColumnComplete(board, i + 1)
    ELSE FALSE

hasWon(board) ==
    IF AnyRowComplete(board, 0) THEN TRUE
    ELSE IF AnyColumnComplete(board, 0) THEN TRUE
    ELSE IF isDiagonalComplete(board, 0) THEN TRUE
    ELSE IF isDiagonalComplete(board, 1) THEN TRUE
    ELSE FALSE

(***************************************************************************)
(* getCompletedLines                                                       *)
(***************************************************************************)
LineId(kind, i) == kind \o "-" \o ToString(i)

RECURSIVE PushRows(_, _, _)
PushRows(lines, board, i) ==
    IF i < board.size
    THEN PushRows(IF isRowComplete(board, i)
                  THEN Append(lines, LineId("row", i)) ELSE lines,
                  board, i + 1)
    ELSE lines

RECURSIVE PushColumns(_, _, _)
PushColumns(lines, board, i) ==
    IF i < board.size
    THEN PushColumns(IF isColumnComplete(board, i)
                     THEN Append(lines, LineId("col", i)) ELSE lines,
                     board, i + 1)
    ELSE lines

PushDiagonal(lines, board, diagonal) ==
    IF isDiagonalComplete(board, diagonal)
    THEN Append(lines, LineId("diag", diagonal)) ELSE lines

\* only the first completed line
getFirstCompletedLine(board) ==
    LET lines == PushDiagonal(PushDiagonal(PushColumns(PushRows(<<>>, board, 0),
                                                       board, 0),
                                           board, 0),
                              board, 1)
    IN  IF lines = <<>> THEN lines ELSE <<Head(lines)>>

getCompletedLines(board) ==
    PushDiagonal(PushDiagonal(PushColumns(PushRows(<<>>, board, 0), board, 0),
                              board, 0),
                 board, 1)

(***************************************************************************)
(* The caller: it holds playlist.songs and the boards it was returned;     *)
(* result is the outcome of its last call.                                 *)
(***************************************************************************)
NoError == [text |-> "none"]

NoStream == <<>>

NoResult ==
    [op |-> "none", args |-> <<>>, rnd |-> NoStream, threw |-> FALSE,
     error |-> NoError]

\* the call op(args), the Math.random stream it drew from (NoStream when it
\* returned or threw before any draw) and whether it threw
Outcome(op, args, rnd, r) ==
    [op |-> op, args |-> args, rnd |-> IF r.threw THEN NoStream ELSE rnd,
     threw |-> r.threw, error |-> IF r.threw THEN r.error ELSE NoError]

PoolLens ==
    {n \in 0..(25 + Slack) :
        \E size \in BoardSizes, f \in BOOLEAN :
            /\ n >= cellCount(size, f) - 1
            /\ n <= cellCount(size, f) + Slack}

\* playlists of distinct tracks, and one in which a track is repeated
PoolKeys == {<<n, FALSE>> : n \in PoolLens} \cup {<<cellCount(3, FALSE), TRUE>>}

Pools == {Playlist(key[1], key[2]) : key \in PoolKeys}

KeyOf(pool) ==
    <<Len(pool), Len(pool) > 1 /\ pool[Len(pool)].id = pool[1].id>>

\* the outcomes of generateSpotifyBingo and of generateMultipleBoards for
\* every playlist, argument list and random stream, computed once
SingleOutcomes ==
    [k \in PoolKeys \X BoardSizes \X BOOLEAN \X RandomStreams |->
        generateSpotifyBingo(Playlist(k[1][1], k[1][2]), k[2], k[3], k[4], 0)]
    @@ <<>>

MultipleOutcomes ==
    [k \in PoolKeys \X (0..MaxCount) \X BoardSizes \X BOOLEAN
               \X RandomStreams |->
        generateMultipleBoards(Playlist(k[1][1], k[1][2]), k[2], k[3], k[4],
                               k[5])]
    @@ <<>>

Init ==
    /\ songs \in Pools
    /\ boards = <<>>
    /\ result = NoResult

\* boards = [generateSpotifyBingo(songs, size, includeFreeSpace)]
GenerateSpotifyBingo ==
    \E size \in BoardSizes, includeFreeSpace \in BOOLEAN, rnd \in RandomStreams :
        \E r \in {SingleOutcomes[<<KeyOf(songs), size, includeFreeSpace, rnd>>]} :
            /\ result' = Outcome("generateSpotifyBingo",
                                  [size |-> size,
                                   includeFreeSpace |-> includeFreeSpace],
                                  rnd, r)
            /\ boards' = IF r.threw THEN boards ELSE <<r.board>>
            /\ UNCHANGED songs

\* boards = generateMultipleBoards(songs, count, size, includeFreeSpace)
GenerateMultipleBoards ==
    \E count \in 0..MaxCount, size \in BoardSizes, includeFreeSpace \in BOOLEAN,
       rnd \in RandomStreams :
        \E r \in {MultipleOutcomes[<<KeyOf(songs), count, size,
                                     includeFreeSpace, rnd>>]} :
            /\ result' = Outcome("generateMultipleBoards",
                                  [count |-> count, size |-> size,
                                   includeFreeSpace |-> includeFreeSpace],
                                  IF count = 0 THEN NoStream ELSE rnd, r)
            /\ boards' = IF r.threw THEN boards ELSE r.boards
            /\ UNCHANGED songs

Next ==
    \/ GenerateSpotifyBingo
    \/ GenerateMultipleBoards

\* the generator called on a playlist
Spec == Init /\ [][Next]_vars

(***************************************************************************)
(* The caller marking the boards it generated.                             *)
(***************************************************************************)
PlayPools == {Playlist(25 + Slack, FALSE)}

\* Math.random returning 0 at every call
FirstStream == [start |-> 0, step |-> 0]

InitPlay ==
    /\ songs \in PlayPools
    /\ \E count \in 1..2, size \in BoardSizes,
          includeFreeSpace \in BOOLEAN, rnd \in {FirstStream} :
          \E r \in {generateMultipleBoards(songs, count, size,
                                           includeFreeSpace, rnd)} :
              /\ ~r.threw
              /\ boards = r.boards
              /\ result = Outcome("generateMultipleBoards",
                                  [count |-> count, size |-> size,
                                   includeFreeSpace |-> includeFreeSpace],
                                  IF count = 0 THEN NoStream ELSE rnd, r)

\* the mark of the cell differs from the generated one
IsToggled(board, row, col) ==
    board.cells[row][col].marked # (board.cells[row][col].song = FreeSong)

Toggled(board) ==
    {rc \in (0..(board.size - 1)) \X (0..(board.size - 1)) :
        IsToggled(board, rc[1], rc[2])}

RECURSIVE ToggledCount(_, _)
ToggledCount(bs, b) ==
    IF b > Len(bs) THEN 0
    ELSE Cardinality(Toggled(bs[b])) + ToggledCount(bs, b + 1)

\* toggleCell(boards[b], row, col)
ToggleCell(b, row, col) ==
    /\ b \in 1..Len(boards)
    /\ \E r \in {toggleCell(boards[b], row, col)} :
        /\ result' = Outcome("toggleCell",
                              [b |-> b, row |-> row, col |-> col],
                              NoStream, r)
        /\ boards' = IF r.threw THEN boards
                     ELSE [boards EXCEPT ![b] = r.board]
    /\ UNCHANGED songs

\* resetBoard(boards[b])
ResetBoard(b) ==
    /\ b \in 1..Len(boards)
    /\ boards' = [boards EXCEPT ![b] = resetBoard(boards[b])]
    /\ result' = [op |-> "resetBoard", args |-> [b |-> b], rnd |-> NoStream,
                  threw |-> FALSE, error |-> NoError]
    /\ UNCHANGED songs

\* the coordinates a caller passes: every cell, and positions one step
\* outside the grid in each direction
Positions(board) ==
    LET inside  == 0..(board.size - 1)
        outside == {-1, board.size}
    IN  (inside \X inside)
            \cup (outside \X {0}) \cup ({0} \X outside)
            \cup {<<o, o>> : o \in outside}

\* the call keeps the number of toggled cells within MaxToggled
WithinToggled(used, board, rc) ==
    IF used < MaxToggled THEN TRUE
    ELSE IF rc \notin (0..(board.size - 1)) \X (0..(board.size - 1)) THEN TRUE
    ELSE IsToggled(board, rc[1], rc[2])

NextPlay ==
    \/ \E used \in {ToggledCount(boards, 1)} :
          \E b \in 1..Len(boards) :
              \E rc \in Positions(boards[b]) :
                  /\ WithinToggled(used, boards[b], rc)
                  /\ ToggleCell(b, rc[1], rc[2])
    \/ \E b \in 1..Len(boards) : ResetBoard(b)

SpecPlay == InitPlay /\ [][NextPlay]_vars

(***************************************************************************)
(* The caller evaluating a marked board.  Every marking is one the caller  *)
(* reaches by toggleCell calls, since toggleCell flips any single cell.    *)
(***************************************************************************)
Cells(size) == (0..(size - 1)) \X (0..(size - 1))

\* the cells of the lines of the grid, by kind and index
LineCells(kind, i, size) ==
    CASE kind = "row"  -> {<<i, c>> : c \in 0..(size - 1)}
      [] kind = "col"  -> {<<r, i>> : r \in 0..(size - 1)}
      [] kind = "diag" -> IF i = 0 THEN {<<k, k>> : k \in 0..(size - 1)}
                          ELSE {<<k, size - 1 - k>> : k \in 0..(size - 1)}

LineKeys(size) ==
    ({"row", "col"} \X (0..(size - 1))) \cup ({"diag"} \X {0, 1})

\* the subsets of S of at most k elements
RECURSIVE SubsetsUpTo(_, _)
SubsetsUpTo(S, k) ==
    IF k = 0 THEN {{}}
    ELSE LET smaller == SubsetsUpTo(S, k - 1)
         IN  smaller \cup {T \cup {x} : T \in smaller, x \in S}

Markings(size) ==
    LET unions == {UNION {LineCells(key[1], key[2], size) : key \in keys} :
                      keys \in SubsetsUpTo(LineKeys(size), MaxLines)}
        bases  == unions \cup {Cells(size)}
    IN  {(base \ flip) \cup (flip \ base) :
            base \in bases, flip \in SubsetsUpTo(Cells(size), MaxFlip)}

\* the board with exactly the cells of marking marked
MarkedAs(board, marking) ==
    [board EXCEPT !.cells =
        [row \in DOMAIN board.cells |->
            [col \in DOMAIN board.cells[row] |->
                [board.cells[row][col] EXCEPT
                    !.marked = (<<row, col>> \in marking)]]]]


InitLines ==
    /\ songs \in PlayPools
    /\ \E size \in BoardSizes, includeFreeSpace \in BOOLEAN :
          \E r \in {generateSpotifyBingo(songs, size, includeFreeSpace,
                                         FirstStream, 0)} :
              \E marking \in Markings(size) :
                  boards = <<MarkedAs(r.board, marking)>>
    /\ result = NoResult

Value(op, value) ==
    [op |-> op, args |-> [b |-> 1], rnd |-> NoStream, threw |-> FALSE,
     error |-> NoError, value |-> value]

\* hasWon(boards[1])
HasWon ==
    /\ result' = Value("hasWon", hasWon(boards[1]))
    /\ UNCHANGED <<songs, boards>>

\* getCompletedLines(boards[1])
GetCompletedLines ==
    /\ result' = Value("getCompletedLines", getCompletedLines(boards[1]))
    /\ UNCHANGED <<songs, boards>>

\* isBlackout(boards[1])
IsBlackout ==
    /\ result' = Value("isBlackout", isBlackout(boards[1]))
    /\ UNCHANGED <<songs, boards>>

NextLines ==
    \/ HasWon
    \/ GetCompletedLines
    \/ IsBlackout

SpecLines == InitLines /\ [][NextLines]_vars

(***************************************************************************)
(* Properties of the generator.                                            *)
(***************************************************************************)
\* the number of tracks a size x size board needs
RequiredCount(size, includeFreeSpace) ==
    IF size = 5 /\ includeFreeSpace THEN size * size - 1 ELSE size * size

SongAt(board, rc) == board.cells[rc[1]][rc[2]].song

MarkedAt(board, rc) == board.cells[rc[1]][rc[2]].marked

NonFreeCells(board) == {rc \in Cells(board.size) : SongAt(board, rc) # FreeSong}

FreeCells(board) == {rc \in Cells(board.size) : SongAt(board, rc) = FreeSong}

\* cells is a size x size grid
IsGrid(board, size) ==
    /\ board.size = size
    /\ DOMAIN board.cells = 0..(size - 1)
    /\ \A row \in 0..(size - 1) : DOMAIN board.cells[row] = 0..(size - 1)

\* the non-free cells hold pairwise distinct entries of pool, as many as
\* the board needs
HoldsDistinctTracks(board, pool, size, includeFreeSpace) ==
    /\ Cardinality(NonFreeCells(board)) = RequiredCount(size, includeFreeSpace)
    /\ \A rc1, rc2 \in NonFreeCells(board) :
          rc1 # rc2 => SongAt(board, rc1) # SongAt(board, rc2)
    /\ \A rc \in NonFreeCells(board) :
          \E k \in 1..Len(pool) : pool[k] = SongAt(board, rc)
    /\ (\A k1, k2 \in 1..Len(pool) : k1 # k2 => pool[k1].id # pool[k2].id)
          => \A rc1, rc2 \in NonFreeCells(board) :
                rc1 # rc2 => SongAt(board, rc1).id # SongAt(board, rc2).id

\* C1: with a pool of at least requiredCount tracks, generateSpotifyBingo
\* returns a size x size board whose non-free cells hold exactly
\* requiredCount tracks, pairwise distinct and all entries of the pool.
C1_DistinctTracksFromPool ==
    (/\ result.op = "generateSpotifyBingo"
     /\ Len(songs) >= RequiredCount(result.args.size,
                                    result.args.includeFreeSpace))
        => /\ ~result.threw
           /\ Len(boards) = 1
           /\ IsGrid(boards[1], result.args.size)
           /\ HoldsDistinctTracks(boards[1], songs, result.args.size,
                                  result.args.includeFreeSpace)

\* a board was generated from a pool larger than the board needs
C1_Witness ==
    /\ result.op = "generateSpotifyBingo"
    /\ ~result.threw
    /\ result.args.size = 4
    /\ Len(songs) > 16
    /\ Cardinality(NonFreeCells(boards[1])) = 16

\* C2: a generated board has exactly one free cell iff size = 5 and
\* includeFreeSpace, at (2, 2) and marked; in every other case it has no
\* free cell and every cell is unmarked.
C2_FreeCellOnlyAtCentre ==
    (result.op = "generateSpotifyBingo" /\ ~result.threw)
        => IF result.args.size = 5 /\ result.args.includeFreeSpace
           THEN /\ FreeCells(boards[1]) = {<<2, 2>>}
                /\ MarkedAt(boards[1], <<2, 2>>)
           ELSE /\ FreeCells(boards[1]) = {}
                /\ \A rc \in Cells(boards[1].size) : ~MarkedAt(boards[1], rc)

\* a 5x5 board with the free cell, and one without it, were generated
C2_Witness ==
    /\ result.op = "generateSpotifyBingo"
    /\ ~result.threw
    /\ result.args.size = 5
    /\ result.args.includeFreeSpace
    /\ SongAt(boards[1], <<2, 2>>) = FreeSong

\* C3 (outcome): generateSpotifyBingo throws exactly when the pool has
\* fewer than requiredCount tracks, and the error reports the required and
\* the available count.
C3_Outcome ==
    result.op = "generateSpotifyBingo"
        => /\ result.threw <=>
                  Len(songs) < RequiredCount(result.args.size,
                                             result.args.includeFreeSpace)
           /\ result.threw =>
                  /\ result.error.text = "Need at least"
                  /\ result.error.need =
                        RequiredCount(result.args.size,
                                      result.args.includeFreeSpace)
                  /\ result.error.got = Len(songs)

\* C3: generateSpotifyBingo fails with the insufficient-tracks error
\* exactly when pool length < requiredCount, the error reports required and
\* available counts, and the failing call hands no board to the caller.
C3_InsufficientTracks ==
    /\ []C3_Outcome
    /\ [][(result'.op = "generateSpotifyBingo" /\ result'.threw)
              => boards' = boards]_vars

\* a 5x5 board with free space was refused for a pool of 23 tracks
C3_Witness ==
    /\ result.op = "generateSpotifyBingo"
    /\ result.threw
    /\ result.args.size = 5
    /\ result.args.includeFreeSpace
    /\ result.error.need = 24
    /\ result.error.got = 23

\* C10: with a sufficient pool, generateMultipleBoards returns exactly count
\* boards, the i-th being the board the single-board generator returns for
\* the i-th run of random draws; each is size x size, holds distinct tracks
\* of the pool and has the free cell only for size 5 with includeFreeSpace.
C10_MultipleBoards ==
    (/\ result.op = "generateMultipleBoards"
     /\ Len(songs) >= RequiredCount(result.args.size,
                                    result.args.includeFreeSpace))
        => /\ ~result.threw
           /\ Len(boards) = result.args.count
           /\ \A i \in 1..Len(boards) :
                 /\ IsGrid(boards[i], result.args.size)
                 /\ HoldsDistinctTracks(boards[i], songs, result.args.size,
                                        result.args.includeFreeSpace)
                 /\ FreeCells(boards[i]) =
                       IF result.args.size = 5 /\ result.args.includeFreeSpace
                       THEN {<<2, 2>>} ELSE {}
                 /\ boards[i] =
                       generateSpotifyBingo(songs, result.args.size,
                                            result.args.includeFreeSpace,
                                            result.rnd,
                                            (i - 1) * (Len(songs) - 1)).board

\* two different boards were returned and a track is on both of them
C10_Witness ==
    /\ result.op = "generateMultipleBoards"
    /\ ~result.threw
    /\ result.args.count = 2
    /\ Len(boards) = 2
    /\ boards[1] # boards[2]
    /\ \E rc1 \in NonFreeCells(boards[1]), rc2 \in NonFreeCells(boards[2]) :
          SongAt(boards[1], rc1) = SongAt(boards[2], rc2)

\* the number of cells without free space up to rc, in row-major order
RowMajorRank(board, rc) ==
    Cardinality({x \in NonFreeCells(board) :
                    x[1] < rc[1] \/ (x[1] = rc[1] /\ x[2] <= rc[2])})

\* C25: in a generated board the k-th cell without free space, counted
\* row by row and from left to right in a row, holds the k-th track of
\* the shuffled pool and is unmarked; the centre of a 5x5 board with free
\* space holds the free space, is marked and takes no track; and the id of
\* the cell at (row, col) is 'row-col'.
C25_RowMajorFill ==
    (result.op = "generateSpotifyBingo" /\ ~result.threw)
        => LET size     == result.args.size
               free     == result.args.includeFreeSpace /\ size = 5
               shuffled == shuffleArray(songs, result.rnd, 0)
               board    == boards[1]
           IN  /\ Cardinality(NonFreeCells(board))
                      = size * size - (IF free THEN 1 ELSE 0)
               /\ \A rc \in Cells(size) :
                      /\ board.cells[rc[1]][rc[2]].id
                             = ToString(rc[1]) \o "-" \o ToString(rc[2])
                      /\ IF free /\ rc = <<2, 2>>
                         THEN /\ SongAt(board, rc) = FreeSong
                              /\ MarkedAt(board, rc)
                         ELSE /\ SongAt(board, rc)
                                     = shuffled[RowMajorRank(board, rc)]
                              /\ ~MarkedAt(board, rc)

\* the cell after the free space holds the 13th track of a shuffled pool
C25_Witness ==
    /\ result.op = "generateSpotifyBingo"
    /\ ~result.threw
    /\ result.args.size = 5
    /\ result.args.includeFreeSpace
    /\ shuffleArray(songs, result.rnd, 0) # songs
    /\ SongAt(boards[1], <<2, 3>>) = shuffleArray(songs, result.rnd, 0)[13]
    /\ boards[1].cells[2][3].id = "2-3"

(***************************************************************************)
(* Properties of the marking operations.                                   *)
(***************************************************************************)
InRange(board, row, col) ==
    row \in 0..(board.size - 1) /\ col \in 0..(board.size - 1)

\* C4: after resetBoard every non-free cell of the board is unmarked and
\* the free cell is marked iff the board has one; a 5x5 board generated
\* without free space has no marked cell.
C4_ResetMarksOnlyFreeCell ==
    result.op = "resetBoard"
        => \A rc \in Cells(boards[result.args.b].size) :
              MarkedAt(boards[result.args.b], rc)
                  <=> SongAt(boards[result.args.b], rc) = FreeSong

\* C5 (step): a toggleCell call with row and col in [0, size) does not
\* throw, flips the mark of the cell at (row, col) and leaves every other
\* mark and every occupant as it was.
C5_Step ==
    (/\ result'.op = "toggleCell"
     /\ InRange(boards[result'.args.b], result'.args.row, result'.args.col))
        => /\ ~result'.threw
           /\ Len(boards') = Len(boards)
           /\ \A b \in 1..Len(boards) :
                 /\ boards'[b].size = boards[b].size
                 /\ \A rc \in Cells(boards[b].size) :
                       /\ SongAt(boards'[b], rc) = SongAt(boards[b], rc)
                       /\ boards'[b].cells[rc[1]][rc[2]].id =
                             boards[b].cells[rc[1]][rc[2]].id
                       /\ MarkedAt(boards'[b], rc) =
                             IF /\ b = result'.args.b
                                /\ rc = <<result'.args.row, result'.args.col>>
                             THEN ~MarkedAt(boards[b], rc)
                             ELSE MarkedAt(boards[b], rc)

\* C5 (twice): toggling the same cell of a board twice gives the board back
C5_Twice ==
    \A b \in 1..Len(boards) :
        \A rc \in Cells(boards[b].size) :
            toggleCell(toggleCell(boards[b], rc[1], rc[2]).board,
                       rc[1], rc[2]).board = boards[b]

\* C5: toggleCell with row and col in [0, size) flips the mark of exactly
\* the cell at (row, col), changes no other mark and no occupant, and is its
\* own inverse.
C5_ToggleFlipsOneCell ==
    /\ [][C5_Step]_vars
    /\ []C5_Twice

\* a marked cell was toggled and is now unmarked, next to another board
C5_Witness ==
    /\ result.op = "toggleCell"
    /\ ~result.threw
    /\ Len(boards) = 2
    /\ SongAt(boards[result.args.b],
              <<result.args.row, result.args.col>>) = FreeSong
    /\ ~MarkedAt(boards[result.args.b],
                 <<result.args.row, result.args.col>>)

\* C6: toggleCell with row or col outside [0, size) throws the
\* invalid-position error and changes no mark of any board.
C6_ToggleOutOfRange ==
    [][(/\ result'.op = "toggleCell"
        /\ ~InRange(boards[result'.args.b], result'.args.row,
                    result'.args.col))
           => /\ result'.threw
              /\ result'.error = [text |-> "Invalid cell position",
                                  row |-> result'.args.row,
                                  col |-> result'.args.col]
              /\ boards' = boards]_vars

\* a toggle one row below the grid of a board with a toggled cell threw
C6_Witness ==
    /\ result.op = "toggleCell"
    /\ result.threw
    /\ result.args.row = boards[result.args.b].size
    /\ ToggledCount(boards, 1) > 0

\* C24: on every board the cell that holds the free space (the centre of
\* a 5x5 board generated with free space) is marked, whatever toggleCell
\* and resetBoard calls were made, a toggleCell at (2, 2) included.
C24_FreeCellStaysMarked ==
    \A b \in 1..Len(boards) :
        \A rc \in FreeCells(boards[b]) : MarkedAt(boards[b], rc)

(***************************************************************************)
(* Properties of the win evaluation.                                       *)
(***************************************************************************)
\* every cell of the line is marked
LineMarked(board, key) ==
    \A rc \in LineCells(key[1], key[2], board.size) : MarkedAt(board, rc)

Range(seq) == {seq[i] : i \in 1..Len(seq)}

\* C7: hasWon is true iff some row, some column, diagonal 0 or diagonal 1
\* is fully marked.
C7_HasWonIffLine ==
    result.op = "hasWon"
        => (result.value <=>
               \E key \in LineKeys(boards[1].size) : LineMarked(boards[1], key))

\* hasWon was true for a board whose only complete line is diagonal 1
C7_Witness ==
    /\ result.op = "hasWon"
    /\ result.value
    /\ {key \in LineKeys(boards[1].size) : LineMarked(boards[1], key)}
          = {<<"diag", 1>>}

\* C8: getCompletedLines holds the identifier of a line iff every cell of
\* that line is marked, each identifier once.
C8_CompletedLines ==
    result.op = "getCompletedLines"
        => /\ \A key \in LineKeys(boards[1].size) :
                 LineId(key[1], key[2]) \in Range(result.value)
                     <=> LineMarked(boards[1], key)
           /\ Range(result.value) \subseteq
                 {LineId(key[1], key[2]) : key \in LineKeys(boards[1].size)}
           /\ \A i, j \in 1..Len(result.value) :
                 i # j => result.value[i] # result.value[j]

\* a row and a column were complete at once and both were reported
C8_Witness ==
    /\ result.op = "getCompletedLines"
    /\ Len(result.value) = 2
    /\ "row-0" \in Range(result.value)
    /\ "col-1" \in Range(result.value)

\* C9: isBlackout is true iff every cell of the board, the free cell
\* included, is marked.
C9_BlackoutIffAllMarked ==
    result.op = "isBlackout"
        => (result.value <=>
               \A rc \in Cells(boards[1].size) : MarkedAt(boards[1], rc))

\* isBlackout was false for a 5x5 board with only the free cell unmarked
C9_Witness ==
    /\ result.op = "isBlackout"
    /\ ~result.value
    /\ FreeCells(boards[1]) = {<<2, 2>>}
    /\ \A rc \in Cells(5) : MarkedAt(boards[1], rc) <=> rc # <<2, 2>>

(***************************************************************************)
(* The catalog client ($lib/server/spotify.ts).  The upstream is the       *)
(* playlist it holds (items; an item is the catalog id of its track, or    *)
(* NullTrack when item.track is null) and the status it answers the        *)
(* requests of one call with: the failAt-th request (1, 2, ...) gets       *)
(* failStatus, every other request 200.  A request that is rejected        *)
(* (fetch throws) has the status Rejected.                                 *)
(***************************************************************************)
\* largest number of full pages of the upstream playlist
MaxPages == 2

\* const limit = 50
Limit == 50

NullTrack == 0

Rejected == 0

\* error.status of an error made without a status
NoStatus == -1

SpotifyError(message, status) ==
    [name |-> "SpotifyError", text |-> message, status |-> status]

\* what fetch throws when the request is rejected
FetchFailed == [name |-> "TypeError", text |-> "fetch failed", status |-> NoStatus]

\* response.ok
IsOk(status) == status >= 200 /\ status <= 299

\* the status of the response to the next request, given the requests made
StatusOf(upstream, calls) ==
    IF Len(calls) + 1 = upstream.failAt THEN upstream.failStatus ELSE 200

Request(kind, offset, status) ==
    [request |-> kind, offset |-> offset, status |-> status]

getAccessToken(upstream, calls) ==
    LET status == StatusOf(upstream, calls)
        log    == Append(calls, Request("token", 0, status))
    IN  IF status = Rejected
        THEN [threw |-> TRUE, error |-> FetchFailed, calls |-> log]
        ELSE IF ~IsOk(status)
        THEN [threw |-> TRUE, calls |-> log,
              error |-> SpotifyError("Failed to get Spotify access token",
                                     status)]
        ELSE [threw |-> FALSE, calls |-> log]

\* the playlist id of a link, "" when there is none; a link is its prefix
\* followed by the characters that make an id
extractPlaylistIdFromLink(playlistLink) ==
    IF playlistLink.prefix = "spotify:playlist:"
    THEN playlistLink.id
    ELSE IF playlistLink.prefix = "https://open.spotify.com/playlist/"
    THEN playlistLink.id
    ELSE ""

\* the error of a tracks page answered with a status that is not ok
PageError(status) ==
    IF status = 404 THEN SpotifyError("Playlist not found", 404)
    ELSE IF status = 401 THEN SpotifyError("Authentication failed", 401)
    ELSE IF status = 429
    THEN SpotifyError("Rate limit exceeded. Please try again later", 429)
    ELSE SpotifyError("Spotify API error", status)

\* the items the upstream returns for offset and limit
PageItems(upstream, offset, limit) ==
    SubSeq(upstream.items, offset + 1,
           IF offset + limit < Len(upstream.items)
           THEN offset + limit ELSE Len(upstream.items))

getPlaylistTracksPage(upstream, offset, limit, calls) ==
    LET token == getAccessToken(upstream, calls)
    IN  IF token.threw THEN token
        ELSE LET status == StatusOf(upstream, token.calls)
                 log    == Append(token.calls,
                                  Request("tracks", offset, status))
             IN  IF status = Rejected
                 THEN [threw |-> TRUE, error |-> FetchFailed, calls |-> log]
                 ELSE IF ~IsOk(status)
                 THEN [threw |-> TRUE, error |-> PageError(status),
                       calls |-> log]
                 ELSE [threw |-> FALSE, calls |-> log,
                       items |-> PageItems(upstream, offset, limit)]

\* for (const item of tracksPage.items): the items without a track are
\* skipped, the others pushed in their order
PushItems(allSongs, items) ==
    LET tracks == SelectSeq(items, LAMBDA item : item # NullTrack)
    IN  allSongs \o [i \in 1..Len(tracks) |->
                        Song(Len(allSongs) + i, tracks[i])]

\* the loop guard with <= for <
MorePagesInclusive(offset, total) == offset <= total

MorePages(offset, total) == offset < total

\* while (offset < playlist.tracks.total), resumed at offset
RECURSIVE PagesLoop(_, _, _, _, _)
PagesLoop(allSongs, offset, total, upstream, calls) ==
    IF MorePages(offset, total)
    THEN LET tracksPage == getPlaylistTracksPage(upstream, offset, Limit,
                                                 calls)
         IN  IF tracksPage.threw THEN tracksPage
             ELSE PagesLoop(PushItems(allSongs, tracksPage.items),
                            offset + Limit, total, upstream,
                            tracksPage.calls)
    ELSE [threw |-> FALSE, calls |-> calls,
          value |-> [totalTracks |-> total, songs |-> allSongs]]

\* the error of the playlist request answered with a status that is not ok
PlaylistError(status) ==
    IF status = 404 THEN SpotifyError("Playlist not found", 404)
    ELSE IF status = 401 THEN SpotifyError("Authentication failed", 401)
    ELSE SpotifyError("Failed to fetch playlist", status)

\* the try block of getPlaylistFromLink
TryGetPlaylist(playlistLink, upstream) ==
    IF extractPlaylistIdFromLink(playlistLink) = ""
    THEN [threw |-> TRUE, calls |-> <<>>,
          error |-> SpotifyError("Invalid Spotify playlist link format", 400)]
    ELSE LET token == getAccessToken(upstream, <<>>)
         IN  IF token.threw THEN token
             ELSE LET status == StatusOf(upstream, token.calls)
                      log    == Append(token.calls,
                                       Request("playlist", 0, status))
                  IN  IF status = Rejected
                      THEN [threw |-> TRUE, error |-> FetchFailed,
                            calls |-> log]
                      ELSE IF ~IsOk(status)
                      THEN [threw |-> TRUE, error |-> PlaylistError(status),
                            calls |-> log]
                      ELSE PagesLoop(<<>>, 0, Len(upstream.items), upstream,
                                     log)

\* a catch block that wraps every error
CatchWrapAll(error) == SpotifyError("Failed to get playlist", NoStatus)

\* the catch block of getPlaylistFromLink: the error it throws
Catch(error) ==
    IF error.name = "SpotifyError" THEN error
    ELSE SpotifyError("Failed to get playlist", NoStatus)

getPlaylistFromLink(playlistLink, upstream) ==
    LET r == TryGetPlaylist(playlistLink, upstream)
    IN  IF r.threw
        THEN [threw |-> TRUE, error |-> Catch(r.error), calls |-> r.calls]
        ELSE r

(***************************************************************************)
(* fetchPlaylist (routes/data.remote.ts).  The input of the query is a     *)
(* value with its JavaScript type; received lists the links the query      *)
(* handed to getPlaylistFromLink.                                          *)
(***************************************************************************)
\* the characters of a link
LinkText(playlistLink) == playlistLink.prefix \o playlistLink.id

\* a schema without the length check
ValidateLinkOfAnyLength(input) == input.type = "string"

\* v.pipe(v.string(), v.minLength(1, 'Playlist link cannot be empty'))
ValidateLink(input) ==
    IF input.type = "string" THEN Len(LinkText(input.value)) >= 1 ELSE FALSE

\* the error of an input the schema refuses
LinkError(input) ==
    [name |-> "ValiError", status |-> 400,
     text |-> IF input.type = "string"
              THEN "Playlist link cannot be empty" ELSE "Invalid type"]

fetchPlaylist(input, upstream) ==
    IF ~ValidateLink(input)
    THEN [threw |-> TRUE, error |-> LinkError(input), calls |-> <<>>,
          received |-> <<>>, songs |-> <<>>]
    ELSE LET r == getPlaylistFromLink(input.value, upstream)
         IN  [threw |-> r.threw,
              error |-> IF r.threw THEN r.error ELSE NoError,
              calls |-> r.calls, received |-> <<input.value>>,
              songs |-> IF r.threw THEN <<>> ELSE r.value.songs]

(***************************************************************************)
(* A caller of getPlaylistFromLink.  Every call is a request of its own:   *)
(* it starts with no playlist and ends with the songs it was returned.     *)
(***************************************************************************)
PlaylistLinks ==
    [prefix : {"spotify:playlist:", "https://open.spotify.com/playlist/",
               "https://example.com/"},
     id : {"", "p1"}]

\* the upstream playlists: as many items as fill the pages exactly, or one
\* more or one less; every nullEvery-th item has no track
FetchTotals ==
    {t \in 0..(MaxPages * Limit + 1) : t % Limit \in {0, 1, Limit - 1}}

Items(total, nullEvery) ==
    [k \in 1..total |->
        IF nullEvery > 0 /\ k % nullEvery = 0 THEN NullTrack ELSE k]

\* the largest number of requests one call makes
MaxRequests == 2 + 2 * (MaxPages + 1)

FailStatuses == {401, 404, 429, 500, Rejected}

Upstreams ==
    {[items |-> Items(total, nullEvery), failAt |-> f[1], failStatus |-> f[2]] :
        total \in FetchTotals, nullEvery \in {0, 1, 3, Limit},
        f \in {<<0, 200>>} \cup ((1..MaxRequests) \X FailStatuses)}

InitFetch ==
    /\ songs = <<>>
    /\ boards = <<>>
    /\ result = NoResult

\* songs = (await getPlaylistFromLink(playlistLink)).songs
GetPlaylistFromLink ==
    /\ result = NoResult
    /\ \E playlistLink \in PlaylistLinks, upstream \in Upstreams :
        \E r \in {getPlaylistFromLink(playlistLink, upstream)} :
            /\ result' = [op |-> "getPlaylistFromLink",
                          args |-> [playlistLink |-> playlistLink,
                                    upstream |-> upstream],
                          rnd |-> NoStream, threw |-> r.threw,
                          error |-> IF r.threw THEN r.error ELSE NoError,
                          calls |-> r.calls]
            /\ songs' = IF r.threw THEN songs ELSE r.value.songs
            /\ UNCHANGED boards

\* the inputs a client sends: the links above, no character at all, a
\* blank, and the number 1 (its value is held as its characters)
EmptyLink == [prefix |-> "", id |-> ""]

FetchInputs ==
    {[type |-> "string", value |-> playlistLink] :
        playlistLink \in PlaylistLinks
                             \cup {EmptyLink, [prefix |-> " ", id |-> ""]}}
        \cup {[type |-> "number", value |-> [prefix |-> "1", id |-> ""]]}

\* songs = (await fetchPlaylist(input)).songs
FetchPlaylist ==
    /\ result = NoResult
    /\ \E input \in FetchInputs, upstream \in Upstreams :
        \E r \in {fetchPlaylist(input, upstream)} :
            /\ result' = [op |-> "fetchPlaylist",
                          args |-> [input |-> input, upstream |-> upstream],
                          rnd |-> NoStream, threw |-> r.threw,
                          error |-> r.error, calls |-> r.calls,
                          received |-> r.received]
            /\ songs' = r.songs
            /\ UNCHANGED boards

NextFetch ==
    \/ GetPlaylistFromLink
    \/ FetchPlaylist

SpecFetch == InitFetch /\ [][NextFetch]_vars

(***************************************************************************)
(* Properties of the catalog client.                                       *)
(***************************************************************************)
\* the requests of the log for tracks pages
PageRequests(calls) == SelectSeq(calls, LAMBDA c : c.request = "tracks")

\* the positions of the items that have a track
WithTrack(items) == {k \in 1..Len(items) : items[k] # NullTrack}

\* the number of items with a track up to the k-th
Rank(items, k) == Cardinality({j \in WithTrack(items) : j <= k})

\* the number of pages of Limit items that hold total items
PageCount(total) == (total + Limit - 1) \div Limit

\* C19: a call of getPlaylistFromLink that returns has requested the
\* tracks pages at the offsets 0, 50, 100, ... below the total of the
\* playlist, ceil(total / 50) of them, and returns the tracks of the items
\* that have one, in the order of the upstream, each once.
C19_PaginatesAllTracks ==
    (result.op = "getPlaylistFromLink" /\ ~result.threw)
        => LET items == result.args.upstream.items
               pages == PageRequests(result.calls)
               kept  == WithTrack(items)
           IN  /\ Len(pages) = PageCount(Len(items))
               /\ \A i \in 1..Len(pages) :
                      /\ pages[i].offset = (i - 1) * Limit
                      /\ pages[i].offset < Len(items)
               /\ Len(songs) = Cardinality(kept)
               /\ \A k \in kept :
                      songs[Rank(items, k)].id = "t" \o ToString(items[k])

C19_Witness ==
    /\ result.op = "getPlaylistFromLink"
    /\ ~result.threw
    /\ Len(result.args.upstream.items) = 2 * Limit + 1
    /\ Len(PageRequests(result.calls)) = 3
    /\ Len(songs) > Limit
    /\ Len(songs) < 2 * Limit + 1

\* the requests of the log answered with a status that is not ok
Refused(calls) ==
    {i \in 1..Len(calls) :
        calls[i].status # Rejected /\ ~IsOk(calls[i].status)}

\* C20: when a request of getPlaylistFromLink (token, playlist or tracks
\* page) is answered with a status that is not ok, the call makes no
\* further request and throws one SpotifyError with that status, and no
\* playlist is returned.
C20_UpstreamStatusPreserved ==
    (result.op = "getPlaylistFromLink")
        => \A i \in Refused(result.calls) :
               /\ i = Len(result.calls)
               /\ result.threw
               /\ result.error.name = "SpotifyError"
               /\ result.error.status = result.calls[i].status
               /\ songs = <<>>

C20_Witness ==
    /\ result.op = "getPlaylistFromLink"
    /\ result.threw
    /\ Len(result.calls) = 6
    /\ result.calls[6].request = "tracks"
    /\ result.calls[6].status = 429
    /\ result.error.status = 429

\* C21: fetchPlaylist called with the empty string throws the validation
\* error of the schema and hands nothing to getPlaylistFromLink, which
\* makes no request; called with any other string it hands that string,
\* as it is, to getPlaylistFromLink once and ends as that call ends.
C21_EmptyLinkRejected ==
    (result.op = "fetchPlaylist" /\ result.args.input.type = "string")
        => LET playlistLink == result.args.input.value
           IN  IF LinkText(playlistLink) = ""
               THEN /\ result.threw
                    /\ result.error.name = "ValiError"
                    /\ result.error.text = "Playlist link cannot be empty"
                    /\ result.received = <<>>
                    /\ result.calls = <<>>
                    /\ songs = <<>>
               ELSE LET r == getPlaylistFromLink(playlistLink,
                                                 result.args.upstream)
                    IN  /\ result.received = <<playlistLink>>
                        /\ result.threw = r.threw
                        /\ result.calls = r.calls
                        /\ r.threw => result.error = r.error
                        /\ ~r.threw => songs = r.value.songs

\* the empty string was refused by the schema
C21_Witness ==
    /\ result.op = "fetchPlaylist"
    /\ result.args.input = [type |-> "string", value |-> EmptyLink]
    /\ result.threw
    /\ result.received = <<>>

(***************************************************************************)
(* The rasterized renderer ($lib/server/canvas-pdf-export.ts).             *)
(*                                                                         *)
(* Lengths are in units of 1/Px pixel, which makes every length of         *)
(* generateBoardImage an integer for the grid sizes 2..6.  A text is a     *)
(* record: title names it, tokens holds the widths of its tokens (words    *)
(* when hasSpaces, else characters) in quarters of the font size; a space  *)
(* is one quarter wide.  ctx.measureText is linear in the font size.       *)
(***************************************************************************)
Px == 1500

\* 'FREE', the name of the free song and the label of the free space
FreeText == [title |-> "FREE", hasSpaces |-> FALSE, tokens |-> <<3, 3, 3, 3>>]

\* song.name: the names of a playlist are one word, a long title, a title
\* without spaces and a short title, in turn
NameOf(song) ==
    IF song.ref = 0 THEN FreeText
    ELSE LET title == "name of " \o song.id
         IN  CASE song.ref % 4 = 1 ->
                    [title |-> title, hasSpaces |-> FALSE,
                     tokens |-> <<2, 2, 2, 2>>]
               [] song.ref % 4 = 2 ->
                    [title |-> title, hasSpaces |-> TRUE,
                     tokens |-> [k \in 1..12 |-> 16]]
               [] song.ref % 4 = 3 ->
                    [title |-> title, hasSpaces |-> FALSE,
                     tokens |-> [k \in 1..40 |-> 4]]
               [] OTHER ->
                    [title |-> title, hasSpaces |-> TRUE,
                     tokens |-> <<10, 4, 12>>]

NoImage == "null"

\* song.image: every third track of a playlist has no artwork
ImageOf(song) ==
    IF song.ref = 0 \/ song.ref % 3 = 0 THEN NoImage
    ELSE "image of " \o song.id

\* a line of a text: the tokens from .. to, and its width in quarters
NoLine == [from |-> 1, to |-> 0, quarters |-> 0]

\* one turn of the loop of measureWrappedLines, for the i-th token; state
\* holds lines and current
WrapTurn(state, text, i, fontSize, maxWidth) ==
    LET current == state.current
        token   == [from |-> i, to |-> i, quarters |-> text.tokens[i]]
        test    == IF current.to >= current.from
                   THEN [from |-> current.from, to |-> i,
                         quarters |-> current.quarters
                             + (IF text.hasSpaces THEN 1 ELSE 0)
                             + text.tokens[i]]
                   ELSE token
    IN  IF fontSize * test.quarters <= 4 * maxWidth
        THEN [lines |-> state.lines, current |-> test]
        ELSE [lines   |-> IF current.to >= current.from
                          THEN Append(state.lines, current) ELSE state.lines,
              current |-> token]

\* the turns of the loop for the tokens from, ..., to, made half by half:
\* the second half starts in the state the first half ends in
RECURSIVE WrapLoop(_, _, _, _, _, _)
WrapLoop(state, text, from, to, fontSize, maxWidth) ==
    IF from > to THEN state
    ELSE IF from = to THEN WrapTurn(state, text, from, fontSize, maxWidth)
    ELSE CHOOSE after \in
             {WrapLoop(half, text, (from + to) \div 2 + 1, to, fontSize,
                       maxWidth) :
                  half \in {WrapLoop(state, text, from, (from + to) \div 2,
                                     fontSize, maxWidth)}} : TRUE

\* if (current) lines.push(current); return lines
LinesOf(state) ==
    IF state.current.to >= state.current.from
    THEN Append(state.lines, state.current)
    ELSE state.lines

measureWrappedLines(text, fontSize, maxWidth) ==
    LinesOf(WrapLoop([lines |-> <<>>, current |-> NoLine], text, 1,
                     Len(text.tokens), fontSize, maxWidth))

\* lines.slice(0, maxLines)
Slice(lines, maxLines) ==
    SubSeq(lines, 1, IF Len(lines) < maxLines THEN Len(lines) ELSE maxLines)

\* Math.max(10, baseFontSize * 0.5), rounded down to the unit
MinFont(baseFontSize) ==
    IF 10 * Px > baseFontSize \div 2 THEN 10 * Px ELSE baseFontSize \div 2

\* the loop of fitTextToBox, resumed at fontSize
RECURSIVE FitLoop(_, _, _, _, _, _)
FitLoop(text, boxWidth, boxHeight, maxLines, minFont, fontSize) ==
    IF fontSize >= minFont
    THEN LET lines   == measureWrappedLines(text, fontSize, boxWidth)
             clipped == Slice(lines, maxLines)
         IN  IF Len(clipped) * (fontSize * 6) <= boxHeight * 5
             THEN [lines |-> clipped, fontSize |-> fontSize]
             ELSE FitLoop(text, boxWidth, boxHeight, maxLines, minFont,
                          fontSize - Px)
    ELSE [lines |-> Slice(measureWrappedLines(text, minFont, boxWidth),
                          maxLines),
          fontSize |-> minFont]

fitTextToBox(text, boxWidth, boxHeight, maxLines, baseFontSize) ==
    FitLoop(text, boxWidth, boxHeight, maxLines, MinFont(baseFontSize),
            baseFontSize)

\* board.cells.length
GridSize(board) == Cardinality(DOMAIN board.cells)

\* showFreeSpace && gridSize === 5 && i === 2 && j === 2
IsFreeSpace(showFreeSpace, gridSize, i, j) ==
    showFreeSpace /\ gridSize = 5 /\ i = 2 /\ j = 2

\* a failed loadImage that leaves generateBoardImage
LoadImageOrThrow(image, broken) ==
    IF image \in broken
    THEN [threw |-> TRUE,
          error |-> [name |-> "Error", text |-> "Failed to load image",
                     status |-> NoStatus]]
    ELSE [threw |-> FALSE, art |-> TRUE]

\* try { await loadImage(...); ctx.drawImage(...) } catch { }: broken holds
\* the images that fail to load
LoadImage(image, broken) ==
    IF image \in broken
    THEN [threw |-> FALSE, art |-> FALSE]
    ELSE [threw |-> FALSE, art |-> TRUE]

\* the text drawn in a cell of a track, without a mark for the lines cut
\* (the lines of fitTextToBox, each by strokeText and fillText)
DrawText(cell, cellSize, hasImage) ==
    LET padding        == IF 8 * Px > cellSize \div 25
                          THEN 8 * Px ELSE cellSize \div 25
        innerW         == cellSize - padding * 2
        innerH         == cellSize - padding * 2
        artAreaHeight  == IF hasImage THEN (innerH * 9) \div 20 ELSE 0
        textAreaHeight == innerH - artAreaHeight
                              - (IF hasImage THEN padding \div 2 ELSE 0)
        baseFontSize   == (cellSize * 3) \div 25
        maxLines       == 4
    IN  fitTextToBox(NameOf(cell.song), (innerW * 19) \div 20,
                     textAreaHeight, maxLines, baseFontSize)

\* the body of the loops of generateBoardImage for the cell (i, j)
DrawCell(board, showFreeSpace, broken, i, j) ==
    LET gridSize == GridSize(board)
        cellSize == (1120 * Px) \div gridSize
        cell     == board.cells[i][j]
    IN  IF IsFreeSpace(showFreeSpace, gridSize, i, j)
        THEN [threw |-> FALSE, kind |-> "free", art |-> FALSE,
              text |-> FreeText, lines |-> <<>>,
              fontSize |-> cellSize \div 5]
        ELSE LET hasImage == ImageOf(cell.song) # NoImage
                 img      == IF hasImage
                             THEN LoadImage(ImageOf(cell.song), broken)
                             ELSE [threw |-> FALSE, art |-> FALSE]
             IN  IF img.threw THEN img
                 ELSE LET fit == DrawText(cell, cellSize, hasImage)
                      IN  [threw |-> FALSE, kind |-> "song",
                           art |-> img.art, text |-> NameOf(cell.song),
                           lines |-> fit.lines, fontSize |-> fit.fontSize]

\* the PNG of a board; a cell is drawn without regard to the others, and an
\* error thrown while drawing a cell leaves the function
generateBoardImage(board, boardNumber, showFreeSpace, broken) ==
    LET gridSize == GridSize(board)
        drawn    == [i \in 0..(gridSize - 1) |->
                        [j \in 0..(gridSize - 1) |->
                            DrawCell(board, showFreeSpace, broken, i, j)]]
        failed   == {rc \in (0..(gridSize - 1)) \X (0..(gridSize - 1)) :
                        drawn[rc[1]][rc[2]].threw}
    IN  IF failed # {}
        THEN LET rc == CHOOSE x \in failed :
                           \A y \in failed :
                               x[1] < y[1] \/ (x[1] = y[1] /\ x[2] <= y[2])
             IN  [threw |-> TRUE, error |-> drawn[rc[1]][rc[2]].error]
        ELSE [threw |-> FALSE,
              image |-> [format |-> "png", gridSize |-> gridSize,
                         cells |-> drawn]]

\* String.prototype.padStart
RECURSIVE PadStart(_, _, _)
PadStart(str, targetLength, padString) ==
    IF Len(str) >= targetLength THEN str
    ELSE PadStart(padString \o str, targetLength, padString)

\* a file name made of the index as it is, without padding
UnpaddedName(i, ext) == "bingo_board_" \o ToString(i) \o ext

\* `bingo_board_${String(i + 1).padStart(3, '0')}.ext`, for i + 1
EntryName(i, ext) == "bingo_board_" \o PadStart(ToString(i), 3, "0") \o ext

\* zip.file(name, data) of JSZip: an entry of that name is replaced
ZipFile(zip, name, data) ==
    IF \E k \in 1..Len(zip) : zip[k].name = name
    THEN [k \in 1..Len(zip) |->
             IF zip[k].name = name THEN [name |-> name, data |-> data]
             ELSE zip[k]]
    ELSE Append(zip, [name |-> name, data |-> data])

\* the loop of generateBingoBoardsImagesZip, resumed at i
RECURSIVE ImagesZipLoop(_, _, _, _, _)
ImagesZipLoop(zip, i, boardList, showFreeSpace, broken) ==
    IF i < Len(boardList)
    THEN LET imageBuffer == generateBoardImage(boardList[i + 1], i + 1,
                                               showFreeSpace, broken)
         IN  IF imageBuffer.threw THEN imageBuffer
             ELSE ImagesZipLoop(ZipFile(zip, EntryName(i + 1, ".png"),
                                        imageBuffer.image),
                                i + 1, boardList, showFreeSpace, broken)
    ELSE [threw |-> FALSE, value |-> [format |-> "zip", entries |-> zip]]

generateBingoBoardsImagesZip(boardList, showFreeSpace, broken) ==
    ImagesZipLoop(<<>>, 0, boardList, showFreeSpace, broken)

NoImageDrawn == [format |-> "none"]

\* a test that finds no board for the right slot
HasNoRightBoard(i, boardList) == FALSE

\* if (i + 1 < boards.length)
HasRightBoard(i, boardList) == i + 1 < Len(boardList)

\* the loop of generateBingoBoardsCanvasPDF, resumed at i
RECURSIVE CanvasPDFLoop(_, _, _, _, _)
CanvasPDFLoop(pages, i, boardList, showFreeSpace, broken) ==
    IF i < Len(boardList)
    THEN LET leftBuffer == generateBoardImage(boardList[i + 1], i + 1,
                                              showFreeSpace, broken)
         IN  IF leftBuffer.threw THEN leftBuffer
             ELSE IF HasRightBoard(i, boardList)
             THEN LET rightBuffer == generateBoardImage(boardList[i + 2],
                                         i + 2, showFreeSpace, broken)
                  IN  IF rightBuffer.threw THEN rightBuffer
                      ELSE CanvasPDFLoop(
                               Append(pages, [left |-> leftBuffer.image,
                                              right |-> rightBuffer.image]),
                               i + 2, boardList, showFreeSpace, broken)
             ELSE CanvasPDFLoop(
                      Append(pages, [left |-> leftBuffer.image,
                                     right |-> NoImageDrawn]),
                      i + 2, boardList, showFreeSpace, broken)
    ELSE [threw |-> FALSE, value |-> [format |-> "pdf", pages |-> pages]]

\* the pages are those added by pdfDoc.addPage
generateBingoBoardsCanvasPDF(boardList, showFreeSpace, broken) ==
    CanvasPDFLoop(<<>>, 0, boardList, showFreeSpace, broken)

(***************************************************************************)
(* The vector-table renderer ($lib/server/pdf-export.ts).  A document of   *)
(* pdfmake is its pages, each the content it holds: the content is laid    *)
(* out from the first page on, an element with pageBreak 'before' starts   *)
(* a new page, and a table is not split.                                   *)
(***************************************************************************)
\* a test that finds the free space on every 5x5 table
IsFreeSpaceAnyFlag(showFreeSpace, gridSize, i, j) ==
    gridSize = 5 /\ i = 2 /\ j = 2

\* showFreeSpace && gridSize === 5 && i === 2 && j === 2
IsFreeSpaceOfTable(showFreeSpace, gridSize, i, j) ==
    showFreeSpace /\ gridSize = 5 /\ i = 2 /\ j = 2

\* cellWidth = 515 / gridSize is kept as the pair <<515, gridSize>>
boardToPDFTable(board, showFreeSpace) ==
    LET gridSize == GridSize(board)
    IN  [body |->
            [i \in 0..(gridSize - 1) |->
                [j \in DOMAIN board.cells[i] |->
                    IF IsFreeSpaceOfTable(showFreeSpace, gridSize, i, j)
                    THEN [text |-> FreeText, bold |-> TRUE, fontSize |-> 16]
                    ELSE [text |-> NameOf(board.cells[i][j].song),
                          bold |-> FALSE,
                          fontSize |-> IF gridSize = 3 THEN 11
                                       ELSE IF gridSize = 4 THEN 10
                                       ELSE 9]]],
         widths  |-> [k \in 1..gridSize |-> <<515, gridSize>>],
         heights |-> [k \in 1..gridSize |-> <<515, gridSize>>]]

\* the pages printer.createPdfKitDocument lays the content out on, resumed
\* at the k-th element
RECURSIVE Layout(_, _, _)
Layout(pages, content, k) ==
    IF k > Len(content) THEN pages
    ELSE IF content[k].pageBreak = "before"
    THEN Layout(Append(pages, <<content[k].table>>), content, k + 1)
    ELSE Layout([pages EXCEPT ![Len(pages)] =
                    Append(pages[Len(pages)], content[k].table)],
                content, k + 1)

createPdfKitDocument(content) ==
    [format |-> "pdf", pages |-> Layout(<< <<>> >>, content, 1)]

generateBoardPDFBlob(board, boardNumber, showFreeSpace) ==
    createPdfKitDocument(
        <<[pageBreak |-> "undefined",
           table |-> boardToPDFTable(board, showFreeSpace)]>>)

\* a page break before every board but the first two
PageBreakLate(index) == IF index <= 1 THEN "undefined" ELSE "before"

\* pageBreak: index === 0 ? undefined : 'before'
PageBreak(index) == IF index = 0 THEN "undefined" ELSE "before"

generateBingoBoardsPDF(boardList, showFreeSpace) ==
    LET content == [k \in 1..Len(boardList) |->
                       [pageBreak |-> PageBreak(k - 1),
                        table |-> boardToPDFTable(boardList[k],
                                                  showFreeSpace)]]
    IN  [threw |-> FALSE, value |-> createPdfKitDocument(content)]

\* the loop of generateBingoBoardsPDFZip, resumed at i
RECURSIVE PDFZipLoop(_, _, _, _)
PDFZipLoop(zip, i, boardList, showFreeSpace) ==
    IF i < Len(boardList)
    THEN PDFZipLoop(ZipFile(zip, EntryName(i + 1, ".pdf"),
                            generateBoardPDFBlob(boardList[i + 1], i + 1,
                                                 showFreeSpace)),
                    i + 1, boardList, showFreeSpace)
    ELSE [threw |-> FALSE, value |-> [format |-> "zip", entries |-> zip]]

generateBingoBoardsPDFZip(boardList, showFreeSpace) ==
    PDFZipLoop(<<>>, 0, boardList, showFreeSpace)

(***************************************************************************)
(* A render job: the boards of one generateMultipleBoards call, rendered   *)
(* once by one of the four renderers.                                      *)
(***************************************************************************)
\* largest number of boards of a render job (of 3x3 boards; the larger
\* boards come in sets of at most MaxCount)
MaxBoards == 11

RenderJobs ==
    ((0..MaxCount) \X BoardSizes) \cup ((0..MaxBoards) \X {3})

\* the images that fail to load: none, those of every other track, all
BrokenImages(pool) ==
    {{}, {ImageOf(pool[k]) : k \in {n \in 1..Len(pool) : n % 2 = 1}},
     {ImageOf(pool[k]) : k \in 1..Len(pool)}}

\* playlists of an odd and of an even number of tracks
RenderPools == {Playlist(25 + Slack, FALSE), Playlist(24 + Slack, FALSE)}

\* Math.random returning 0 at every call, or 0, 1/RandDen, 2/RandDen, ...
RenderStreams == {FirstStream, [start |-> 0, step |-> 1]}

InitRender ==
    /\ songs \in RenderPools
    /\ \E job \in RenderJobs, includeFreeSpace \in BOOLEAN,
          rnd \in RenderStreams :
          \E r \in {generateMultipleBoards(songs, job[1], job[2],
                                           includeFreeSpace, rnd)} :
              /\ ~r.threw
              /\ boards = r.boards
    /\ result = NoResult

Rendered(op, showFreeSpace, broken, r) ==
    [op |-> op, args |-> [showFreeSpace |-> showFreeSpace, broken |-> broken],
     rnd |-> NoStream, threw |-> r.threw,
     error |-> IF r.threw THEN r.error ELSE NoError,
     value |-> IF r.threw THEN [format |-> "none"] ELSE r.value]

\* await generateBingoBoardsCanvasPDF(boards, showFreeSpace)
GenerateBingoBoardsCanvasPDF ==
    /\ result = NoResult
    /\ \E showFreeSpace \in BOOLEAN, broken \in BrokenImages(songs) :
        result' = Rendered("generateBingoBoardsCanvasPDF", showFreeSpace,
                           broken,
                           generateBingoBoardsCanvasPDF(boards, showFreeSpace,
                                                        broken))
    /\ UNCHANGED <<songs, boards>>

\* await generateBingoBoardsImagesZip(boards, showFreeSpace)
GenerateBingoBoardsImagesZip ==
    /\ result = NoResult
    /\ \E showFreeSpace \in BOOLEAN, broken \in BrokenImages(songs) :
        result' = Rendered("generateBingoBoardsImagesZip", showFreeSpace,
                           broken,
                           generateBingoBoardsImagesZip(boards, showFreeSpace,
                                                        broken))
    /\ UNCHANGED <<songs, boards>>

\* await generateBingoBoardsPDF(boards, showFreeSpace)
GenerateBingoBoardsPDF ==
    /\ result = NoResult
    /\ \E showFreeSpace \in BOOLEAN :
        result' = Rendered("generateBingoBoardsPDF", showFreeSpace, {},
                           generateBingoBoardsPDF(boards, showFreeSpace))
    /\ UNCHANGED <<songs, boards>>

\* await generateBingoBoardsPDFZip(boards, showFreeSpace)
GenerateBingoBoardsPDFZip ==
    /\ result = NoResult
    /\ \E showFreeSpace \in BOOLEAN :
        result' = Rendered("generateBingoBoardsPDFZip", showFreeSpace, {},
                           generateBingoBoardsPDFZip(boards, showFreeSpace))
    /\ UNCHANGED <<songs, boards>>

NextRender ==
    \/ GenerateBingoBoardsCanvasPDF
    \/ GenerateBingoBoardsImagesZip
    \/ GenerateBingoBoardsPDF
    \/ GenerateBingoBoardsPDFZip

SpecRender == InitRender /\ [][NextRender]_vars

(***************************************************************************)
(* Properties of the renderers.                                            *)
(***************************************************************************)
Centre == <<2, 2>>

\* the table shows, cell by cell, the names of the tracks of the board
\* (the centre cell apart, which may be the free space)
TableShows(table, board) ==
    /\ DOMAIN table.body = 0..(board.size - 1)
    /\ \A rc \in Cells(board.size) \ {Centre} :
           table.body[rc[1]][rc[2]].text = NameOf(SongAt(board, rc))

\* the image shows, cell by cell, the names of the tracks of the board
ImageShows(image, board) ==
    /\ image.format = "png"
    /\ image.gridSize = board.size
    /\ \A rc \in Cells(board.size) \ {Centre} :
           image.cells[rc[1]][rc[2]].text = NameOf(SongAt(board, rc))

\* C13: the single document of the vector-table renderer for N >= 1
\* boards has N pages, and page k holds one table, that of board k:
\* there is a page break before every board but the first.
C13_OnePagePerBoard ==
    (result.op = "generateBingoBoardsPDF" /\ Len(boards) >= 1)
        => /\ ~result.threw
           /\ Len(result.value.pages) = Len(boards)
           /\ \A k \in 1..Len(boards) :
                  /\ Len(result.value.pages[k]) = 1
                  /\ TableShows(result.value.pages[k][1], boards[k])

C13_Witness ==
    /\ result.op = "generateBingoBoardsPDF"
    /\ Len(boards) = 3
    /\ boards[1] # boards[2]
    /\ boards[2] # boards[3]
    /\ Len(result.value.pages) = 3

\* C14: the combined document of the rasterized renderer for N boards has
\* ceil(N / 2) pages; the boards 2k and 2k + 1 (counted from 0) are the
\* left and the right image of page k, so that every board is drawn once,
\* and the last page of an odd N has no right image.
C14_TwoBoardsPerPage ==
    (result.op = "generateBingoBoardsCanvasPDF")
        => LET n == Len(boards)
           IN  /\ ~result.threw
               /\ Len(result.value.pages) = (n + 1) \div 2
               /\ \A b \in 0..(n - 1) :
                      LET page == result.value.pages[(b \div 2) + 1]
                      IN  ImageShows(IF b % 2 = 0 THEN page.left
                                     ELSE page.right, boards[b + 1])
               /\ n % 2 = 1
                      => result.value.pages[(n + 1) \div 2].right
                             = NoImageDrawn

C14_Witness ==
    /\ result.op = "generateBingoBoardsCanvasPDF"
    /\ Len(boards) = 3
    /\ boards[1] # boards[2]
    /\ boards[2] # boards[3]
    /\ Len(result.value.pages) = 2
    /\ result.value.pages[1].right # NoImageDrawn
    /\ result.value.pages[2].right = NoImageDrawn

\* the index i written with zeros in front up to three digits
ThreeDigits(i) ==
    IF i < 10 THEN "00" \o ToString(i)
    ELSE IF i < 100 THEN "0" \o ToString(i)
    ELSE ToString(i)

\* C15: the archive of N boards, of either renderer, has N entries; entry
\* i (from 1) is named by the index i padded with zeros to three digits
\* and holds the render of board i; no two entries have the same name.
C15_ArchiveEntries ==
    (result.op \in {"generateBingoBoardsImagesZip",
                    "generateBingoBoardsPDFZip"})
        => LET entries == result.value.entries
               ext     == IF result.op = "generateBingoBoardsImagesZip"
                          THEN ".png" ELSE ".pdf"
           IN  /\ ~result.threw
               /\ Len(entries) = Len(boards)
               /\ \A i \in 1..Len(entries) :
                      /\ entries[i].name
                             = "bingo_board_" \o ThreeDigits(i) \o ext
                      /\ IF ext = ".png"
                         THEN ImageShows(entries[i].data, boards[i])
                         ELSE /\ Len(entries[i].data.pages) = 1
                              /\ Len(entries[i].data.pages[1]) = 1
                              /\ TableShows(entries[i].data.pages[1][1],
                                            boards[i])
               /\ \A i, j \in 1..Len(entries) :
                      i # j => entries[i].name # entries[j].name

C15_Witness ==
    /\ result.op = "generateBingoBoardsImagesZip"
    /\ Len(boards) = 11
    /\ boards[1] # boards[2]
    /\ result.value.entries[9].name = "bingo_board_009.png"
    /\ result.value.entries[10].name = "bingo_board_010.png"

RasterOps == {"generateBingoBoardsCanvasPDF", "generateBingoBoardsImagesZip"}

\* the image of board b (from 1) in the value of a rasterized render
ImageOfBoard(value, b) ==
    IF value.format = "zip" THEN value.entries[b].data
    ELSE IF b % 2 = 1 THEN value.pages[(b + 1) \div 2].left
    ELSE value.pages[(b + 1) \div 2].right

\* the cells of board b that the renderer draws as the cell of a track
TrackCells(board, showFreeSpace) ==
    {rc \in Cells(board.size) :
        ~(showFreeSpace /\ board.size = 5 /\ rc = Centre)}

\* C16: a rasterized render returns its document whichever images fail to
\* load: every board is drawn, every cell of a track has its text drawn,
\* and the artwork is drawn in exactly the cells whose track has an image
\* that loads.
C16_ArtworkFailureSwallowed ==
    (result.op \in RasterOps)
        => /\ ~result.threw
           /\ \A b \in 1..Len(boards) :
                  LET image == ImageOfBoard(result.value, b)
                  IN  /\ image.format = "png"
                      /\ \A rc \in TrackCells(boards[b],
                                              result.args.showFreeSpace) :
                             LET cell == image.cells[rc[1]][rc[2]]
                                 url  == ImageOf(SongAt(boards[b], rc))
                             IN  /\ cell.text = NameOf(SongAt(boards[b], rc))
                                 /\ Len(cell.lines) >= 1
                                 /\ cell.lines[1].from = 1
                                 /\ cell.art <=>
                                        (url # NoImage
                                            /\ url \notin result.args.broken)

C16_Witness ==
    /\ result.op \in RasterOps
    /\ ~result.threw
    /\ Len(boards) = 2
    /\ \E rc \in Cells(boards[1].size) :
           /\ ImageOf(SongAt(boards[1], rc)) \in result.args.broken
           /\ ~ImageOfBoard(result.value, 1).cells[rc[1]][rc[2]].art
           /\ Len(ImageOfBoard(result.value, 1).cells[rc[1]][rc[2]].lines) >= 1
    /\ \E rc \in Cells(boards[2].size) :
           /\ ImageOf(SongAt(boards[2], rc)) \notin result.args.broken
           /\ ImageOfBoard(result.value, 2).cells[rc[1]][rc[2]].art

\* the text '...' drawn as a line: it holds no token of the name
Ellipsis == [from |-> 0, to |-> -1, quarters |-> 6]

\* the lines drawn in the cell end before the last token of its text
Truncated(cell) ==
    cell.lines = <<>> \/ cell.lines[Len(cell.lines)].to < Len(cell.text.tokens)

\* C17: the rasterized renderer draws the text of a cell on at most 4
\* lines, and a text that wraps to more lines than that is drawn with an
\* ellipsis.
C17_LinesCappedWithEllipsis ==
    (result.op \in RasterOps /\ ~result.threw)
        => \A b \in 1..Len(boards) :
               \A rc \in TrackCells(boards[b], result.args.showFreeSpace) :
                   LET cell == ImageOfBoard(result.value, b)
                                   .cells[rc[1]][rc[2]]
                   IN  /\ Len(cell.lines) <= 4
                       /\ Truncated(cell)
                              => \E k \in 1..Len(cell.lines) :
                                     cell.lines[k] = Ellipsis

\* C18: for a board and a flag, the table of the vector-table renderer
\* and the image of the rasterized renderer have the same rows and
\* columns, and a cell is the bold label 'FREE' of the table exactly when
\* it is the free space of the image, and shows the text 'FREE' in the one
\* exactly when it does in the other.
C18_SameGridAndFreeSpace ==
    (result.op = "generateBingoBoardsPDF" /\ ~result.threw)
        => \A k \in 1..Len(boards) :
               LET table == result.value.pages[k][1]
                   image == generateBoardImage(boards[k], k,
                                               result.args.showFreeSpace,
                                               {}).image
               IN  /\ DOMAIN table.body = DOMAIN image.cells
                   /\ \A i \in DOMAIN table.body :
                          /\ DOMAIN table.body[i] = DOMAIN image.cells[i]
                          /\ \A j \in DOMAIN table.body[i] :
                                 /\ table.body[i][j].bold
                                        <=> image.cells[i][j].kind = "free"
                                 /\ table.body[i][j].text = FreeText
                                        <=> image.cells[i][j].text = FreeText

C18_Witness ==
    /\ result.op = "generateBingoBoardsPDF"
    /\ result.args.showFreeSpace
    /\ Len(boards) = 2
    /\ boards[1].size = 5
    /\ result.value.pages[2][1].body[2][2].bold
    /\ ~result.value.pages[2][1].body[2][1].bold

(***************************************************************************)
(* The export queries (routes/pdf.remote.ts).  A field of the request is   *)
(* a value with its JavaScript type; a string that stands for a number     *)
(* has the number as its value.  calls lists the functions the query has   *)
(* called, in the order of the calls.                                      *)
(***************************************************************************)
Num(n) == [type |-> "number", value |-> n]

Str(x) == [type |-> "string", value |-> x]

\* a schema that accepts every request
ValidateNothing(data) == TRUE

\* v.object({ playlistLink: v.string(), boardCount: v.number(),
\*            boardSize: v.number(), includeFreeSpace: v.boolean() })
Validate(data) ==
    /\ data.playlistLink.type = "string"
    /\ data.boardCount.type = "number"
    /\ data.boardSize.type = "number"
    /\ data.includeFreeSpace.type = "boolean"

\* the error of a request the schema refuses
ValidationError ==
    [name |-> "ValiError", text |-> "Invalid type", status |-> 400]

NoPayload == [buffer |-> "none", filename |-> "none"]

\* Date.prototype.toISOString of an instant given by its fields in UTC (a
\* year of four digits, no seconds)
toISOString(date) ==
    PadStart(ToString(date.year), 4, "0") \o "-"
        \o PadStart(ToString(date.month), 2, "0") \o "-"
        \o PadStart(ToString(date.day), 2, "0") \o "T"
        \o PadStart(ToString(date.hour), 2, "0") \o ":"
        \o PadStart(ToString(date.minute), 2, "0") \o ":00.000Z"

\* str.split(separator)[0], for a separator of one character
SplitFirst(str, separator) ==
    LET at == {k \in 1..Len(str) : SubSeq(str, k, k) = separator}
    IN  IF at = {} THEN str
        ELSE SubSeq(str, 1, (CHOOSE k \in at : \A j \in at : k <= j) - 1)

\* buffer.toString('base64') and the file name of the day
Payload(buffer, date, ext) ==
    [buffer |-> [encoding |-> "base64", of |-> buffer],
     filename |-> "bingo_boards_" \o SplitFirst(toISOString(date), "T")
                      \o ext]

Thrown(error, calls) ==
    [threw |-> TRUE, error |-> error, calls |-> calls, value |-> NoPayload,
     songs |-> <<>>, boards |-> <<>>]

\* the renderer of the query
Render(render, boardList, showFreeSpace, broken) ==
    IF render = "generateBingoBoardsCanvasPDF"
    THEN generateBingoBoardsCanvasPDF(boardList, showFreeSpace, broken)
    ELSE generateBingoBoardsImagesZip(boardList, showFreeSpace, broken)

\* the handler from the return of the renderer on
AfterRender(render, ext, pool, boardList, buffer, date) ==
    LET calls == <<"getPlaylistFromLink", "generateMultipleBoards", render>>
    IN  IF buffer.threw
        THEN [Thrown(buffer.error, calls)
                 EXCEPT !.songs = pool, !.boards = boardList]
        ELSE [threw |-> FALSE, calls |-> calls,
              value |-> Payload(buffer.value, date, ext),
              songs |-> pool, boards |-> boardList]

\* the handler from the return of generateMultipleBoards on
AfterGenerate(render, ext, data, pool, made, broken, date) ==
    IF made.threw
    THEN [Thrown(made.error,
                 <<"getPlaylistFromLink", "generateMultipleBoards">>)
             EXCEPT !.songs = pool]
    ELSE AfterRender(render, ext, pool, made.boards,
                     Render(render, made.boards, data.includeFreeSpace.value,
                            broken),
                     date)

\* the handler from the return of getPlaylistFromLink on
AfterFetch(render, ext, data, playlist, rnd, broken, date) ==
    IF playlist.threw
    THEN Thrown(playlist.error, <<"getPlaylistFromLink">>)
    ELSE AfterGenerate(render, ext, data, playlist.value.songs,
                       generateMultipleBoards(
                           playlist.value.songs, data.boardCount.value,
                           data.boardSize.value, data.includeFreeSpace.value,
                           rnd),
                       broken, date)

\* the handler of a query: render is the renderer it calls, ext the
\* extension of its file name; the schema is checked before the handler
Export(render, ext, data, upstream, rnd, broken, date) ==
    IF ~Validate(data) THEN Thrown(ValidationError, <<>>)
    ELSE AfterFetch(render, ext, data,
                    getPlaylistFromLink(data.playlistLink.value, upstream),
                    rnd, broken, date)

exportPDF(data, upstream, rnd, broken, date) ==
    Export("generateBingoBoardsCanvasPDF", ".pdf", data, upstream, rnd,
           broken, date)

\* the archive query naming its file as the document query does
exportZIPNamedPDF(data, upstream, rnd, broken, date) ==
    Export("generateBingoBoardsImagesZip", ".pdf", data, upstream, rnd,
           broken, date)

exportZIP(data, upstream, rnd, broken, date) ==
    Export("generateBingoBoardsImagesZip", ".zip", data, upstream, rnd,
           broken, date)

(***************************************************************************)
(* A client of the export queries.  Every query is a request of its own.   *)
(***************************************************************************)
Bool(b) == [type |-> "boolean", value |-> b]

\* the requests: counts and sizes inside and outside the ranges of the
\* form, and counts and sizes sent as strings
ExportRequests ==
    [playlistLink : {Str([prefix |-> "spotify:playlist:", id |-> "p1"]),
                     Str([prefix |-> "https://example.com/", id |-> "p1"])},
     boardCount : {Num(n) : n \in (-1)..MaxCount} \cup {Str(2)},
     boardSize : {Num(n) : n \in 2..6} \cup {Str(5)},
     includeFreeSpace : {Bool(TRUE), Bool(FALSE)}]

\* playlists that hold exactly the tracks of a board, answered without a
\* failure, with a refused token request or with a refused tracks page
ExportUpstreams ==
    {[items |-> Items(cellCount(size, f) + slack, 0), failAt |-> fail[1],
      failStatus |-> fail[2]] :
        size \in {2} \cup BoardSizes, f \in BOOLEAN, slack \in 0..Slack,
        fail \in {<<0, 200>>, <<1, 401>>, <<4, 429>>}}

\* new Date(): the last minute of a day and the first minute of a day
Dates ==
    {[year |-> 2026, month |-> 1, day |-> 31, hour |-> 23, minute |-> 59],
     [year |-> 2026, month |-> 11, day |-> 3, hour |-> 0, minute |-> 0]}

InitExport ==
    /\ songs = <<>>
    /\ boards = <<>>
    /\ result = NoResult

Exported(op, data, upstream, broken, date, r) ==
    [op |-> op,
     args |-> [data |-> data, upstream |-> upstream, broken |-> broken,
               date |-> date],
     rnd |-> NoStream, threw |-> r.threw,
     error |-> IF r.threw THEN r.error ELSE NoError,
     calls |-> r.calls, value |-> r.value]

\* await exportPDF(data)
ExportPDF ==
    /\ result = NoResult
    /\ \E data \in ExportRequests, upstream \in ExportUpstreams,
          broken \in {{}, {"image of t1", "image of t2"}}, date \in Dates :
        \E r \in {exportPDF(data, upstream, FirstStream, broken, date)} :
            /\ result' = Exported("exportPDF", data, upstream, broken, date,
                                  r)
            /\ songs' = r.songs
            /\ boards' = r.boards

\* await exportZIP(data)
ExportZIP ==
    /\ result = NoResult
    /\ \E data \in ExportRequests, upstream \in ExportUpstreams,
          broken \in {{}, {"image of t1", "image of t2"}}, date \in Dates :
        \E r \in {exportZIP(data, upstream, FirstStream, broken, date)} :
            /\ result' = Exported("exportZIP", data, upstream, broken, date,
                                  r)
            /\ songs' = r.songs
            /\ boards' = r.boards

NextExport ==
    \/ ExportPDF
    \/ ExportZIP

SpecExport == InitExport /\ [][NextExport]_vars

(***************************************************************************)
(* Properties of the export queries.                                       *)
(***************************************************************************)
ExportOps == {"exportPDF", "exportZIP"}

Renderers == {"generateBingoBoardsCanvasPDF", "generateBingoBoardsImagesZip"}

\* the query has called a renderer
HasRendered(calls) == \E k \in 1..Len(calls) : calls[k] \in Renderers

\* the request has the types of the schema
WellTyped(data) ==
    data.boardCount.type = "number" /\ data.boardSize.type = "number"

\* C11: an export query whose request has a wrong type fails with the
\* validation error before it calls anything; one that asks for boards of
\* more cells than the playlist has tracks fails with the
\* insufficient-tracks error before it calls a renderer; and a query that
\* fails with either error, or with any other, returns no payload.
C11_ErrorsBeforeRendering ==
    (result.op \in ExportOps)
        => LET data == result.args.data
           IN  /\ ~WellTyped(data)
                      => /\ result.threw
                         /\ result.error.text = "Invalid type"
                         /\ result.calls = <<>>
               /\ (/\ WellTyped(data)
                   /\ Len(result.calls) >= 2
                   /\ data.boardCount.value >= 1
                   /\ Len(songs) < RequiredCount(data.boardSize.value,
                                                 data.includeFreeSpace.value))
                      => /\ result.threw
                         /\ result.error.text = "Need at least"
                         /\ result.error.need
                                = RequiredCount(data.boardSize.value,
                                                data.includeFreeSpace.value)
                         /\ result.error.got = Len(songs)
               /\ result.threw
                      => /\ result.value = NoPayload
                         /\ ~HasRendered(result.calls)
               /\ HasRendered(result.calls)
                      => /\ ~result.threw
                         /\ result.calls[Len(result.calls)] \in Renderers
                         /\ ~HasRendered(SubSeq(result.calls, 1,
                                                Len(result.calls) - 1))

C11_Witness ==
    /\ result.op = "exportZIP"
    /\ result.threw
    /\ result.error.text = "Need at least"
    /\ result.calls = <<"getPlaylistFromLink", "generateMultipleBoards">>
    /\ Len(songs) = 24
    /\ result.args.data.boardSize = Num(5)
    /\ result.args.data.boardCount = Num(2)
    /\ result.value = NoPayload

\* C12: an export request whose boardCount is not an integer from 1 or
\* whose boardSize is not 3, 4 or 5 is refused with the validation error
\* and produces no document.
C12_RequestBounds ==
    (result.op \in ExportOps)
        => LET data == result.args.data
           IN  ~(/\ WellTyped(data)
                 /\ data.boardCount.value >= 1
                 /\ data.boardSize.value \in {3, 4, 5})
                   => /\ result.threw
                      /\ result.error.text = "Invalid type"
                      /\ result.value = NoPayload

\* the digits of a day or a month
TwoDigits(n) == IF n < 10 THEN "0" \o ToString(n) ELSE ToString(n)

\* the day of an instant as YYYY-MM-DD
IsoDay(date) ==
    ToString(date.year) \o "-" \o TwoDigits(date.month) \o "-"
        \o TwoDigits(date.day)

\* C23: an export query that returns gives the base64 encoding of the
\* bytes its renderer made of the boards, and the file name
\* bingo_boards_<YYYY-MM-DD>.<ext> of the day of the query, where ext is
\* pdf when the bytes are the document of exportPDF and zip when they are
\* the archive of exportZIP.
C23_PayloadAndFilename ==
    (result.op \in ExportOps /\ ~result.threw)
        => LET data  == result.args.data
               bytes == IF result.op = "exportPDF"
                        THEN generateBingoBoardsCanvasPDF(
                                 boards, data.includeFreeSpace.value,
                                 result.args.broken).value
                        ELSE generateBingoBoardsImagesZip(
                                 boards, data.includeFreeSpace.value,
                                 result.args.broken).value
           IN  /\ result.value.buffer = [encoding |-> "base64", of |-> bytes]
               /\ bytes.format = IF result.op = "exportPDF" THEN "pdf"
                                 ELSE "zip"
               /\ result.value.filename
                      = "bingo_boards_" \o IsoDay(result.args.date) \o "."
                            \o bytes.format

\* an archive of two boards was returned in the last minute of a day
C23_Witness ==
    /\ result.op = "exportZIP"
    /\ ~result.threw
    /\ Len(boards) = 2
    /\ result.args.date.hour = 23
    /\ result.value.filename = "bingo_boards_2026-01-31.zip"
    /\ result.value.buffer.of.format = "zip"

(***************************************************************************)
(* A caller of shuffleArray.  The calls of Math.random return, at the      *)
(* step i of the loop, one of the fractions 0/(i + 1) .. i/(i + 1), which  *)
(* Math.floor(Math.random() * (i + 1)) turns into the indices 0 .. i.      *)
(***************************************************************************)
\* the sequences of values drawn by the loop from i = m - 1 down to 1
RECURSIVE DrawSeqs(_)
DrawSeqs(m) ==
    IF m <= 1 THEN {<<>>}
    ELSE {<<<<j, m>>>> \o d : j \in 0..(m - 1), d \in DrawSeqs(m - 1)}

\* shuffleArray of a playlist of n tracks, for every sequence of draws
ShuffleOutcomes ==
    [n \in 0..MaxShuffle |->
        [d \in DrawSeqs(n) |->
            shuffleArray(Playlist(n, FALSE), [draws |-> d], 0)]]
    @@ <<>>

InitShuffle ==
    /\ songs \in {Playlist(n, FALSE) : n \in 0..MaxShuffle}
    /\ boards = <<>>
    /\ result = NoResult

\* shuffleArray(songs)
ShuffleArray ==
    /\ result = NoResult
    /\ \E d \in DrawSeqs(Len(songs)) :
        result' = [op |-> "shuffleArray", args |-> <<>>,
                   rnd |-> [draws |-> d], threw |-> FALSE, error |-> NoError,
                   value |-> ShuffleOutcomes[Len(songs)][d]]
    /\ UNCHANGED <<songs, boards>>

NextShuffle == ShuffleArray

SpecShuffle == InitShuffle /\ [][NextShuffle]_vars

(***************************************************************************)
(* Properties of shuffleArray.                                             *)
(***************************************************************************)
RECURSIVE Factorial(_)
Factorial(n) == IF n <= 1 THEN 1 ELSE n * Factorial(n - 1)

\* value holds every element of pool once
IsOrderingOf(value, pool) ==
    /\ Len(value) = Len(pool)
    /\ \A k \in 1..Len(pool) :
           Cardinality({j \in 1..Len(value) : value[j] = pool[k]}) = 1

\* C22: shuffleArray of n tracks returns an ordering of them; the loop
\* has n! sequences of index draws, and no two of them give the same
\* ordering, so each of the n! orderings comes from exactly one sequence;
\* and each track is put at each position by (n - 1)! of the sequences,
\* the same number for every track and position.
C22_ShuffleUnbiased ==
    (result.op = "shuffleArray")
        => LET n   == Len(songs)
               all == ShuffleOutcomes[n]
           IN  /\ IsOrderingOf(result.value, songs)
               /\ Cardinality(DOMAIN all) = Factorial(n)
               /\ \A d \in DOMAIN all :
                      all[d] = result.value => d = result.rnd.draws
               /\ \A p \in 1..n :
                      Cardinality({d \in DOMAIN all :
                                      all[d][p] = result.value[p]})
                          = Factorial(n - 1)

\* five tracks were shuffled into the reverse of their order
C22_Witness ==
    /\ result.op = "shuffleArray"
    /\ Len(songs) = 5
    /\ \A k \in 1..5 : result.value[k] = songs[6 - k]

(***************************************************************************)
(* The printer component (components/BingoPrinter.svelte).  A component    *)
(* c holds the $state of the script: boards, boardCount, boardSize,        *)
(* includeFreeSpace, error (NoError for null) and isExporting; pending     *)
(* lists the export queries that were sent and have not settled, and       *)
(* downloaded is the file name last handed to downloadBase64Blob.          *)
(***************************************************************************)
generateBoards(c, pool, rnd) ==
    LET r == generateMultipleBoards(pool, c.boardCount, c.boardSize,
                                    c.includeFreeSpace, rnd)
    IN  IF r.threw THEN [c EXCEPT !.error = r.error, !.boards = <<>>]
        ELSE [c EXCEPT !.error = NoError, !.boards = r.boards]

\* handleExportPDF and handleExportZip up to the await: query is the
\* remote function called
SendExport(c, query, playlistLink) ==
    IF Len(c.boards) = 0 THEN c
    ELSE [c EXCEPT !.isExporting = TRUE,
                   !.pending = Append(@,
                       [query |-> query,
                        data |-> [playlistLink |-> playlistLink,
                                  boardCount |-> c.boardCount,
                                  boardSize |-> c.boardSize,
                                  includeFreeSpace |-> c.includeFreeSpace]])]

handleExportPDF(c, playlistLink) == SendExport(c, "exportPDF", playlistLink)

handleExportZip(c, playlistLink) == SendExport(c, "exportZIP", playlistLink)

\* a handler without the finally block
FinallyNothing(c) == c

\* finally { isExporting = false; }
Finally(c) == [c EXCEPT !.isExporting = FALSE]

\* the handler resumed when its query settles: outcome is the payload the
\* query returned or the error it threw
SettleExport(c, outcome) ==
    LET query == Head(c.pending).query
        rest  == [c EXCEPT !.pending = Tail(@)]
    IN  Finally(IF outcome.threw
                THEN [rest EXCEPT !.error =
                         [text |-> IF query = "exportPDF"
                                   THEN "Failed to export PDF"
                                   ELSE "Failed to export ZIP",
                          cause |-> outcome.error]]
                ELSE [rest EXCEPT !.downloaded = outcome.value.filename])

handleReset(c) == [c EXCEPT !.boards = <<>>, !.error = NoError]

(***************************************************************************)
(* A user of the printer.  songs is playlist.songs, boards the boards of   *)
(* the component, result the rest of the component, the last handler run   *)
(* (op) and the parameters the boards on display were generated with       *)
(* (generated).                                                            *)
(***************************************************************************)
\* the component made of the variables
Component == [result EXCEPT !.boards = boards]

\* the variables after the handler op left the component as c
Shows(op, c, generated) ==
    /\ boards' = c.boards
    /\ result' = [c EXCEPT !.op = op, !.boards = <<>>,
                           !.generated = generated]
    /\ UNCHANGED songs

NoParameters == [boardCount |-> 0, boardSize |-> 0, includeFreeSpace |-> FALSE]

Parameters(c) ==
    [boardCount |-> c.boardCount, boardSize |-> c.boardSize,
     includeFreeSpace |-> c.includeFreeSpace]

InitPrinter ==
    /\ songs = Playlist(16 + Slack, FALSE)
    /\ boards = <<>>
    /\ result = [op |-> "none", boards |-> <<>>, boardCount |-> 1,
                 boardSize |-> 5, includeFreeSpace |-> TRUE,
                 error |-> NoError, isExporting |-> FALSE, pending |-> <<>>,
                 downloaded |-> "none", generated |-> NoParameters]

\* the inputs bound to boardCount, boardSize and includeFreeSpace; the
\* number input takes any number (here a negative one, none, one and
\* more than one), the checkbox is disabled unless the size is 5
EditControls ==
    \/ \E n \in {-1, 0, 1, 2} :
           /\ n # result.boardCount
           /\ Shows("boardCount", [Component EXCEPT !.boardCount = n],
                    result.generated)
    \/ \E size \in BoardSizes :
           /\ size # result.boardSize
           /\ Shows("boardSize", [Component EXCEPT !.boardSize = size],
                    result.generated)
    \/ /\ result.boardSize = 5
       /\ Shows("includeFreeSpace",
                [Component EXCEPT !.includeFreeSpace = ~@], result.generated)

\* a click on Generate
GenerateBoards ==
    \E c \in {generateBoards(Component, songs, FirstStream)} :
        Shows("generateBoards", c,
              IF Len(c.boards) > 0 THEN Parameters(c) ELSE NoParameters)

\* a click on Export PDF: the button is there when boards are shown and
\* disabled while isExporting
HandleExportPDF ==
    /\ Len(boards) > 0
    /\ ~result.isExporting
    /\ Shows("handleExportPDF", handleExportPDF(Component, "spotify:p1"),
             result.generated)

\* a click on Export ZIP: the button is there when boards are shown and
\* boardCount > 1, and disabled while isExporting
HandleExportZip ==
    /\ Len(boards) > 0
    /\ result.boardCount > 1
    /\ ~result.isExporting
    /\ Shows("handleExportZip", handleExportZip(Component, "spotify:p1"),
             result.generated)

\* the query sent first settles: it returns a payload or throws
ExportSettles ==
    /\ result.pending # <<>>
    /\ \E outcome \in {[threw |-> FALSE, error |-> "none",
                        value |-> [buffer |-> "base64",
                                   filename |-> "bingo_boards"]],
                       [threw |-> TRUE, error |-> "Need at least",
                        value |-> NoPayload]} :
           Shows(IF outcome.threw THEN "export threw" ELSE "export returned",
                 SettleExport(Component, outcome), result.generated)

\* a click on Clear, which is there when boards are shown
HandleReset ==
    /\ Len(boards) > 0
    /\ Shows("handleReset", handleReset(Component), NoParameters)

NextPrinter ==
    \/ EditControls
    \/ GenerateBoards
    \/ HandleExportPDF
    \/ HandleExportZip
    \/ ExportSettles
    \/ HandleReset

SpecPrinter == InitPrinter /\ [][NextPrinter]_vars

\* a query that was sent settles
SpecPrinterLive == SpecPrinter /\ WF_vars(ExportSettles)

(***************************************************************************)
(* Properties of the printer component.                                    *)
(***************************************************************************)
SendOps == {"handleExportPDF", "handleExportZip"}

\* C26: an export request sent while boards are shown carries the
\* boardCount, boardSize and includeFreeSpace the boards on display were
\* generated with, whatever the controls were set to afterwards.
C26_ExportMatchesDisplayed ==
    (result.op \in SendOps /\ Len(boards) > 0)
        => LET data == result.pending[Len(result.pending)].data
           IN  [boardCount |-> data.boardCount, boardSize |-> data.boardSize,
                includeFreeSpace |-> data.includeFreeSpace]
                   = result.generated

\* C28 (steps): a step that sends an export request is taken with boards
\* shown; the step in which the query settles sets isExporting to false,
\* and sets error when the query threw.
C28_Step ==
    /\ Len(result'.pending) > Len(result.pending) => Len(boards) > 0
    /\ result'.op \in {"export threw", "export returned"}
           => ~result'.isExporting
    /\ result'.op = "export threw"
           => result'.error.text \in {"Failed to export PDF",
                                      "Failed to export ZIP"}

\* C28: every export that starts (isExporting is set and the request
\* sent) is followed by isExporting being false again, whether the query
\* returns or throws, and in the latter case error is set; and no export
\* request is sent while boards is empty.
C28_ExportEnds ==
    /\ result.isExporting ~> ~result.isExporting
    /\ [][C28_Step]_vars

\* an archive export has failed: error is set and isExporting is false
C28_Witness ==
    /\ result.op = "export threw"
    /\ result.error.text = "Failed to export ZIP"
    /\ ~result.isExporting
    /\ result.pending = <<>>

\* C30: after generateBoards either error is null and boards holds
\* boardCount boards, or error is set and boards is empty.
C30_BoardsOrError ==
    (result.op = "generateBoards")
        => \/ result.error = NoError /\ Len(boards) = result.boardCount
           \/ result.error # NoError /\ boards = <<>>

(***************************************************************************)
(* The playlist page (routes/+page.svelte).  A page p holds the $state of  *)
(* the script: playlistLink, error (NoError for null) and playlistData     *)
(* (NoData for null); pending lists the links of the fetchPlaylist calls   *)
(* that have not settled, and submitted is the link last sent.  The data   *)
(* of a playlist is the link it was fetched for (of) and its songs.        *)
(***************************************************************************)
\* largest number of fetchPlaylist calls in flight
MaxPending == 2

NoData == [name |-> "null"]

\* String.prototype.trim of a link: the blanks before and after it
RECURSIVE TrimStart(_)
TrimStart(str) ==
    IF Len(str) > 0 /\ SubSeq(str, 1, 1) = " "
    THEN TrimStart(SubSeq(str, 2, Len(str))) ELSE str

RECURSIVE TrimEnd(_)
TrimEnd(str) ==
    IF Len(str) > 0 /\ SubSeq(str, Len(str), Len(str)) = " "
    THEN TrimEnd(SubSeq(str, 1, Len(str) - 1)) ELSE str

Trim(playlistLink) ==
    IF playlistLink.id = ""
    THEN [prefix |-> TrimEnd(TrimStart(playlistLink.prefix)), id |-> ""]
    ELSE [prefix |-> TrimStart(playlistLink.prefix),
          id |-> TrimEnd(playlistLink.id)]

\* handleSubmit up to the await
handleSubmit(p) ==
    LET cleared == [p EXCEPT !.error = NoError, !.playlistData = NoData]
    IN  IF LinkText(Trim(p.playlistLink)) = ""
        THEN [cleared EXCEPT !.error =
                 [text |-> "Please enter a Spotify playlist link"]]
        ELSE [cleared EXCEPT !.pending = Append(@, Trim(p.playlistLink)),
                             !.submitted = Trim(p.playlistLink)]

\* handleSubmit resumed when its call, the k-th in flight, settles with r
SettleFetch(p, k, r) ==
    LET rest == [p EXCEPT !.pending =
                    SubSeq(@, 1, k - 1) \o SubSeq(@, k + 1, Len(@))]
    IN  IF r.threw THEN [rest EXCEPT !.error = [text |-> r.error.text]]
        ELSE [rest EXCEPT !.playlistData =
                 [of |-> p.pending[k], songs |-> r.songs]]

\* the catalog as it answers for a link: the playlist p1 has one track,
\* every other playlist two; a failing catalog does not find the playlist
UpstreamOf(playlistLink, fails) ==
    [items |-> Items(IF playlistLink.id = "p1" THEN 1 ELSE 2, 0),
     failAt |-> IF fails THEN 2 ELSE 0, failStatus |-> 404]

\* the variables of a page
PageShows(op, p) ==
    /\ result' = [p EXCEPT !.op = op]
    /\ songs' = IF p.playlistData = NoData THEN <<>> ELSE p.playlistData.songs
    /\ UNCHANGED boards

InitPage ==
    /\ songs = <<>>
    /\ boards = <<>>
    /\ result = [op |-> "none", playlistLink |-> EmptyLink,
                 error |-> NoError, playlistData |-> NoData,
                 pending |-> <<>>, submitted |-> EmptyLink]

\* the user types a link: two playlists, one of them between blanks, a
\* link of another site, and blanks only
TypeLink ==
    \E playlistLink \in
           {[prefix |-> "spotify:playlist:", id |-> "p1"],
            [prefix |-> " spotify:playlist:", id |-> "p2 "],
            [prefix |-> "https://example.com/", id |-> "p1"],
            [prefix |-> "  ", id |-> ""]} :
        /\ playlistLink # result.playlistLink
        /\ PageShows("input", [result EXCEPT !.playlistLink = playlistLink])

\* the form is submitted; the button is never disabled
HandleSubmit ==
    /\ Len(result.pending) < MaxPending
    /\ PageShows("handleSubmit", handleSubmit(result))

\* a call in flight settles, in any order
FetchSettles ==
    \E k \in 1..Len(result.pending), fails \in BOOLEAN :
        \E r \in {fetchPlaylist([type |-> "string",
                                 value |-> result.pending[k]],
                                UpstreamOf(result.pending[k], fails))} :
            PageShows(IF r.threw THEN "fetch threw" ELSE "fetch returned",
                      SettleFetch(result, k, r))

NextPage ==
    \/ TypeLink
    \/ HandleSubmit
    \/ FetchSettles

SpecPage == InitPage /\ [][NextPage]_vars

(***************************************************************************)
(* Properties of the playlist page.                                        *)
(***************************************************************************)
\* C27: on the playlist page error and playlistData are never both set,
\* in any order of submits and settled calls, and the playlistData shown
\* is that of the link submitted last.
C27_ErrorOrDataOfLastSubmit ==
    /\ ~(result.error # NoError /\ result.playlistData # NoData)
    /\ result.playlistData # NoData
           => result.playlistData.of = result.submitted

(***************************************************************************)
(* The objects of the board library.  Above, a board is a value; here it   *)
(* is made of objects, as in JavaScript: a heap holds the arrays of songs  *)
(* (arrays[1] is playlist.songs) and the cell objects, an object is named  *)
(* by its position in the heap, and a board holds the names of its cells.  *)
(* An array literal or object literal makes a new object; an assignment    *)
(* to an element or a field changes the object it names.                   *)
(***************************************************************************)
\* const shuffled = array: the same array under another name
SpreadNothing(heap, array) == [heap |-> heap, ref |-> array]

\* const shuffled = [...array]: a new array of the same elements
Spread(heap, array) ==
    [heap |-> [heap EXCEPT !.arrays = Append(@, @[array])],
     ref  |-> Len(heap.arrays) + 1]

\* shuffleArray: the loop swaps the elements of the array named shuffled
shuffleArrayIn(heap, array, rnd, first) ==
    LET shuffled == Spread(heap, array)
    IN  [heap |-> [shuffled.heap EXCEPT !.arrays[shuffled.ref] =
                      ShuffleLoop(@, Len(@) - 1, 1, rnd, first)],
         ref  |-> shuffled.ref]

\* cells[row][col] = { id, song, marked }: one new object for every cell,
\* made row by row
NewCells(heap, cells, size) ==
    [heap |-> [heap EXCEPT !.cells =
                  @ \o [k \in 1..(size * size) |->
                           cells[(k - 1) \div size][(k - 1) % size]]],
     refs |-> [row \in 0..(size - 1) |->
                  [col \in 0..(size - 1) |->
                      Len(heap.cells) + row * size + col + 1]]]

generateSpotifyBingoIn(heap, pool, size, includeFreeSpace, rnd, first) ==
    IF HasTooFewSongs(heap.arrays[pool], size, includeFreeSpace)
    THEN [threw |-> TRUE, heap |-> heap,
          error |-> InsufficientSongs(size, includeFreeSpace,
                                      heap.arrays[pool])]
    ELSE LET shuffled      == shuffleArrayIn(heap, pool, rnd, first)
             selectedSongs == SubSeq(shuffled.heap.arrays[shuffled.ref], 1,
                                     cellCount(size, includeFreeSpace))
             made          == NewCells(shuffled.heap,
                                       FillCells(size - 1, selectedSongs, size,
                                                 includeFreeSpace).cells,
                                       size)
         IN  [threw |-> FALSE, heap |-> made.heap,
              board |-> [size |-> size, cells |-> made.refs]]

\* the loop of generateMultipleBoards, resumed at i
RECURSIVE MultipleLoopIn(_, _, _, _, _, _, _, _)
MultipleLoopIn(heap, acc, i, pool, count, size, includeFreeSpace, rnd) ==
    IF i < count
    THEN LET r == generateSpotifyBingoIn(heap, pool, size, includeFreeSpace,
                      rnd, i * ShuffleDraws(heap.arrays[pool]))
         IN  IF r.threw THEN [threw |-> TRUE, error |-> r.error, heap |-> r.heap]
             ELSE MultipleLoopIn(r.heap, Append(acc, r.board), i + 1, pool,
                                 count, size, includeFreeSpace, rnd)
    ELSE [threw |-> FALSE, boards |-> acc, heap |-> heap]

generateMultipleBoardsIn(heap, pool, count, size, includeFreeSpace, rnd) ==
    MultipleLoopIn(heap, <<>>, 0, pool, count, size, includeFreeSpace, rnd)

\* board.cells[row][col].marked = !board.cells[row][col].marked
toggleCellIn(heap, board, row, col) ==
    IF row < 0 \/ row >= board.size \/ col < 0 \/ col >= board.size
    THEN [threw |-> TRUE, error |-> InvalidPosition(row, col), heap |-> heap]
    ELSE [threw |-> FALSE, error |-> NoError,
          heap |-> [heap EXCEPT !.cells[board.cells[row][col]].marked = ~@]]

\* resetBoard: every cell object of the board is assigned its mark
resetBoardIn(heap, board) ==
    LET at(ref) == CHOOSE rc \in Cells(board.size) :
                       board.cells[rc[1]][rc[2]] = ref
        own     == {board.cells[rc[1]][rc[2]] : rc \in Cells(board.size)}
    IN  [heap EXCEPT !.cells =
            [ref \in DOMAIN @ |->
                IF ref \in own
                THEN [@[ref] EXCEPT !.marked =
                         board.size = 5 /\ at(ref) = <<2, 2>>]
                ELSE @[ref]]]

(***************************************************************************)
(* A caller of the library that holds objects: songs is the array          *)
(* playlist.songs as the heap holds it, boards the boards it was returned  *)
(* and result.heap the heap; arrays no name is left for are dropped.       *)
(***************************************************************************)
\* the variables after the call op(args) left the heap as heap
Holds(op, args, heap, threw) ==
    /\ result' = [op |-> op, args |-> args, threw |-> threw,
                  heap |-> [heap EXCEPT !.arrays = <<@[1]>>]]
    /\ songs' = heap.arrays[1]

InitObjects ==
    /\ songs \in {Playlist(9 + Slack, FALSE), Playlist(25 + Slack, FALSE)}
    /\ boards = <<>>
    /\ result = [op |-> "none", args |-> <<>>, threw |-> FALSE,
                 heap |-> [arrays |-> <<songs>>, cells |-> <<>>]]

\* boards = generateMultipleBoards(songs, count, size, includeFreeSpace)
GenerateObjects ==
    /\ boards = <<>>
    /\ \E count \in 1..2, size \in {3, 5}, includeFreeSpace \in BOOLEAN,
          rnd \in {FirstStream, [start |-> 1, step |-> 1]} :
          \E r \in {generateMultipleBoardsIn(result.heap, 1, count, size,
                                             includeFreeSpace, rnd)} :
              /\ Holds("generateMultipleBoards",
                       [count |-> count, size |-> size,
                        includeFreeSpace |-> includeFreeSpace],
                       r.heap, r.threw)
              /\ boards' = IF r.threw THEN boards ELSE r.boards

\* toggleCell(boards[b], row, col), at a corner, at the centre or outside
ToggleObject ==
    \E b \in 1..Len(boards) :
        \E row \in {0, boards[b].size \div 2, boards[b].size},
           col \in {0, boards[b].size \div 2} :
            \E r \in {toggleCellIn(result.heap, boards[b], row, col)} :
                /\ Holds("toggleCell", [b |-> b, row |-> row, col |-> col],
                         r.heap, r.threw)
                /\ UNCHANGED boards

\* resetBoard(boards[b])
ResetObject ==
    \E b \in 1..Len(boards) :
        /\ Holds("resetBoard", [b |-> b],
                 resetBoardIn(result.heap, boards[b]), FALSE)
        /\ UNCHANGED boards

NextObjects ==
    \/ GenerateObjects
    \/ ToggleObject
    \/ ResetObject

SpecObjects == InitObjects /\ [][NextObjects]_vars

(***************************************************************************)
(* Properties of the objects.                                              *)
(***************************************************************************)
\* the cell of a board at rc, as the heap holds it
CellIn(heap, board, rc) == heap.cells[board.cells[rc[1]][rc[2]]]

\* C29 (step): a toggleCell or resetBoard call on one board leaves every
\* cell of every other board as it was, and no call (generation included)
\* changes playlist.songs, its order or its entries.
C29_Step ==
    /\ songs' = songs
    /\ result'.heap.arrays = <<songs>>
    /\ result'.op \in {"toggleCell", "resetBoard"}
           => /\ boards' = boards
              /\ \A b \in 1..Len(boards) :
                     b # result'.args.b
                         => \A rc \in Cells(boards[b].size) :
                                CellIn(result'.heap, boards[b], rc)
                                    = CellIn(result.heap, boards[b], rc)

\* C29: the boards of one generateMultipleBoards call are independent in
\* their marks, and the input pool is never modified.
C29_BoardsIndependent == [][C29_Step]_vars

\* the corner of the first of two boards is marked, that of the second
\* board is not, and the pool is in its order
C29_Witness ==
    /\ result.op = "toggleCell"
    /\ ~result.threw
    /\ Len(boards) = 2
    /\ CellIn(result.heap, boards[1], <<0, 0>>).marked
    /\ ~CellIn(result.heap, boards[2], <<0, 0>>).marked
    /\ songs = Playlist(Len(songs), FALSE)
====
